---- MODULE Spec2Model ----
(***************************************************************************)
(* Model of the scraping library: the bounded-memory pagination iterators  *)
(* of BaseScraper, the fingerprint generators of the three scrapers, the   *)
(* MongoDB upsert sinks, the stock loops of the screener scraper,          *)
(* scrape_page of the MoneyControl scrapers with its detail tasks, and the *)
(* streaming file sinks.                                                   *)
(***************************************************************************)
EXTENDS Integers, Sequences, FiniteSets, TLC

(***************************************************************************)
(* Bounds of the model.                                                    *)
(***************************************************************************)
MaxPages == 5

MaxBatch == 2

MaxRecs == 1

\* characters in the two argument lists of a pair of fingerprint calls, together
MaxChars == 3

\* calendar days the clock can reach
MaxDay == 2

\* Records in the stream a sink is given
MaxStream == 3

\* largest batch size of a sink
MaxMongoBatch == 2

\* symbols given to a stock loop
MaxSymbols == 3

\* largest batch size of scrape_stocks_batched
MaxStockBatch == 2

\* articles extracted from one listing page
MaxArticles == 3

\* largest max_concurrent
MaxConcurrent == 2

\* default of argument retries of MoneyControlScraper.fetch_page
FetchPageRetries == 3

\* items the input iterator of a file sink produces
MaxItems == 3

\* Records in one list item of that iterator
MaxListLen == 2

\* body rows of a table
MaxRows == 2

\* date columns of a table
MaxCols == 2

\* characters in the labels of the rows of a table, together
MaxLabelChars == 3

\* largest argument retries of fetch_page and of fetch_article_details
MaxRetries == 4

\* largest argument max_pages of the last-page search
MaxSearchPages == 8

\* calls of the public methods made on one browser scraper object
MaxCalls == 3

\* largest num_pages of a call of scrape_multiple_pages of a browser scraper
MaxBrowserPages == 2

VARIABLES
  \* --- the pagination scenario (arguments and the behaviour of scrape_page)
  num_pages,               \* argument num_pages
  batch_size,              \* argument batch_size of scrape_pages_batched
  pageLen,                 \* pageLen[p]: number of Records scrape_page(p) returns
  failPage,                \* the page on which scrape_page raises (0: none)
  \* --- scrape_pages_generator
  g_pc,                    \* "loop", "fetching", "yield", "delay", "done", "raised"
  g_page,                  \* loop variable page
  g_out,                   \* the lists handed to the consumer so far
  g_delays,                \* number of asyncio.sleep(delay) calls made
  g_calls,                 \* the page numbers scrape_page was called with, in order
  g_inflight,              \* scrape_page calls that have started and not returned
  \* --- scrape_pages_batched
  b_pc,
  b_page,
  batch_articles,
  pages_in_current_batch,
  b_out,
  b_delays,
  b_calls,
  b_inflight,
  \* --- the fingerprint generators
  h_kind,                  \* which generator is called: "article", "indicator", "stock"
  h_in1,                   \* the arguments of the first call (a list of strings)
  h_in2,                   \* the arguments of the second call
  today,                   \* the calendar day datetime.now() falls in
  h_pc,                    \* 1, 2: the call to make next; 3: both calls made
  h_day1,                  \* the day the first call was made (0: not yet)
  h_day2,                  \* the day the second call was made (0: not yet)
  h_out1,                  \* <<fingerprint>> returned by the first call, else <<>>
  h_out2,
  \* --- the document-store sinks
  s_kind,                  \* "upload_streaming", "dual_output" or "upload_articles"
  stream,                  \* the Records the sink is given, in order
  s_pos,                   \* how many of them it has consumed
  mongo_batch_size,        \* batch_size / args.mongodb_batch_size
  s_upsert,                \* argument upsert of upload_streaming
  operations,              \* the pending-operations buffer
  collection,              \* the documents of the MongoDB collection
  stats,                   \* the statistics dictionary
  s_pc,                    \* "start", "open", "loop", "returned", "raised"
  s_writes,                \* the bulk_write calls made: operations and outcome
  unique_index,            \* whether the unique index on "hash" exists
  json_file,               \* what dual_output_processor has written to args.output
  \* --- the stock loops of the screener scraper
  k_method,                \* "generator", "batched" or "standard" (args.method)
  symbols,                 \* argument symbols
  stockOk,                 \* stockOk[i]: scrape_stock(symbols[i]) returns data, not None
  k_batch_size,            \* argument batch_size of scrape_stocks_batched
  k_i,                     \* loop variable i (position of the current symbol)
  k_pc,                    \* "loop", "yield", "delay", "done"
  batch_data,              \* the buffer of scrape_stocks_batched
  k_out,                   \* what the generator has handed to its consumer so far
  all_stocks,              \* the list the standard method collects
  k_log,                   \* the fetches and loop delays made, in order
  \* --- scrape_page of the MoneyControl scrapers
  p_kind,                  \* "requests" (moneycontrol_scraper) or "crawl4ai"
  fetch_details,           \* self.fetch_details
  max_concurrent,          \* self.max_concurrent
  p_pc,                    \* position in scrape_page
  p_attempt,               \* loop variable attempt of fetch_page
  p_failed,                \* whether the fetch of the page failed
  p_articles,              \* local articles
  p_task,                  \* p_task[i]: position of detail task i
  sem_value,               \* the counter of the semaphore (0 before it exists)
  p_details,               \* p_details[i]: what detail task i ended with
  p_result,                \* <<list>> once scrape_page has returned, else <<>>
  \* --- the streaming file sinks
  f_kind,                  \* "sync", "async" (BaseScraper) or "screener"
  pretty,                  \* argument pretty
  f_stream,                \* the items the input iterator produces, in order
  f_raiseAt,               \* the request at which the iterator raises (0: never)
  f_pos,                   \* items taken from the iterator so far
  f_batch,                 \* the articles of the current batch not yet written
  first_article,           \* local first_article / first
  total_articles,          \* local total_articles / total
  f_file,                  \* the strings written to the file, in order
  f_pc,                    \* "open", "loop", "batch", "done", "raised"
  f_error,                 \* what raised: "none", "open", "iterator" or "write"
  \* --- ScreenerScraper._extract_table_raw
  t_headers,               \* the texts of the cells of the header row, as in the page
  t_rows,                  \* the body rows: each the texts of its cells
  t_pc,                    \* "call" or "returned"
  t_result,                \* the dict returned
  \* --- MoneyControlScraper.fetch_page and fetch_article_details
  r_kind,                  \* "fetch_page" or "fetch_article_details"
  r_page_number,           \* argument page_number / the article the url names
  r_retries,               \* argument retries
  r_attempt,               \* loop variable attempt
  r_pc,                    \* "loop", "except", "returned"
  r_log,                   \* the session.get and time.sleep calls made, in order
  r_result,                \* <<value>> once fetch_page has returned, else <<>>
  \* --- EnhancedMoneyControlScraper._binary_search_last_page
  max_pages,               \* argument max_pages
  lastWithArticles,        \* the pages 1..lastWithArticles have articles, no other
  left,                    \* local left
  right,                   \* local right
  last_valid,              \* local last_valid
  probes,                  \* the pages crawler.arun was called for, in order
  bs_pc,                   \* "loop" or "returned"
  \* --- the Selenium and Playwright scrapers (one scraper object)
  w_kind,                  \* "selenium" or "playwright"
  driver,                  \* self.driver / self.browser: "None", "open" or "closed"
  w_pc,                    \* "idle" (no call is running), "loop" or "finally"
  w_page,                  \* loop variable page of scrape_multiple_pages
  w_num_pages,             \* argument num_pages of the running call
  w_calls,                 \* calls of the public methods made on the object
  w_log                    \* the calls, browser starts, page loads and quits, in order

iterVars == <<num_pages, batch_size, pageLen, failPage,
              g_pc, g_page, g_out, g_delays, g_calls, g_inflight,
              b_pc, b_page, batch_articles, pages_in_current_batch,
              b_out, b_delays, b_calls, b_inflight>>

scenarioVars == <<num_pages, batch_size, pageLen, failPage>>

genVars == <<g_pc, g_page, g_out, g_delays, g_calls, g_inflight>>

batVars == <<b_pc, b_page, batch_articles, pages_in_current_batch, b_out, b_delays,
             b_calls, b_inflight>>

hashVars == <<h_kind, h_in1, h_in2, today, h_pc, h_day1, h_day2, h_out1, h_out2>>

sinkVars == <<s_kind, stream, s_pos, mongo_batch_size, s_upsert, operations,
              collection, stats, s_pc, s_writes, unique_index, json_file>>

stockVars == <<k_method, symbols, stockOk, k_batch_size, k_i, k_pc, batch_data,
               k_out, all_stocks, k_log>>

pageVars == <<p_kind, fetch_details, max_concurrent, p_pc, p_attempt, p_failed,
              p_articles, p_task, sem_value, p_details, p_result>>

fileVars == <<f_kind, pretty, f_stream, f_raiseAt, f_pos, f_batch, first_article,
              total_articles, f_file, f_pc, f_error>>

tableVars == <<t_headers, t_rows, t_pc, t_result>>

\* the state of the units that are run on their own
retryVars == <<r_kind, r_page_number, r_retries, r_attempt, r_pc, r_log, r_result>>

searchVars == <<max_pages, lastWithArticles, left, right, last_valid, probes, bs_pc>>

browserVars == <<w_kind, driver, w_pc, w_page, w_num_pages, w_calls, w_log>>

unitVars == <<tableVars, retryVars, searchVars, browserVars>>

vars == <<iterVars, hashVars, sinkVars, stockVars, pageVars, fileVars, unitVars>>

(***************************************************************************)
(* Helpers on sequences.                                                   *)
(***************************************************************************)
RECURSIVE Concat(_)
Concat(seqs) ==
  IF seqs = <<>> THEN <<>> ELSE Head(seqs) \o Concat(Tail(seqs))

CeilDiv(n, d) == (n + d - 1) \div d

(***************************************************************************)
(* scrape_page(page): the abstract method.  It returns the page's list of  *)
(* Records (Record i of page p is <<p, i>>) or raises.                      *)
(***************************************************************************)
ScrapePageRaises(page) == page = failPage

ScrapePage(page) == [i \in 1..pageLen[page] |-> <<page, i>>]

(***************************************************************************)
(* scrape_pages_generator                                                  *)
(***************************************************************************)
\* `if articles:` of the generator, as a bug would have it: always yield.
GenYieldsAlways(articles) == TRUE

\* `if articles:` (base_scraper.py:80)
GenYields(articles) == articles # <<>>

\* `if page < num_pages:` (base_scraper.py:87 and :146)
DelayNeeded(page, n) == page < n

\* a range that ends one page early
PageInRangeShort(page, n) == page < n

\* whether `page` is in range(1, num_pages + 1) (:75 and :126), for page >= 1
PageInRange(page, n) == page <= n

\* the page after `page` in range(1, num_pages + 1), skipping one
NextPageSkipping(page) == page + 2

\* the page after `page` in `for page in range(1, num_pages + 1):` (:75 and :126)
NextPage(page) == page + 1

\* `await self.scrape_page(page)` (:78) starts the call and suspends the generator
GenCall ==
  /\ g_pc = "loop"
  /\ PageInRange(g_page, num_pages)
  /\ g_calls' = Append(g_calls, g_page)
  /\ g_inflight' = g_inflight + 1
  /\ g_pc' = "fetching"
  /\ UNCHANGED <<g_page, g_out, g_delays>>
  /\ UNCHANGED <<scenarioVars, batVars, hashVars, sinkVars,
                 stockVars, pageVars, fileVars, unitVars>>

\* the call returns or raises, and the generator runs on to its next suspension
GenFetch ==
  /\ g_pc = "fetching"
  /\ g_inflight' = g_inflight - 1
  /\ IF ScrapePageRaises(g_page)
       THEN /\ g_pc' = "raised"
            /\ UNCHANGED g_out
       ELSE LET articles == ScrapePage(g_page) IN
            IF GenYields(articles)
              THEN /\ g_out' = Append(g_out, articles)
                   /\ g_pc' = "yield"
              ELSE /\ g_pc' = "delay"
                   /\ UNCHANGED g_out
  /\ UNCHANGED <<g_page, g_delays, g_calls>>
  /\ UNCHANGED <<scenarioVars, batVars, hashVars, sinkVars,
                 stockVars, pageVars, fileVars, unitVars>>

\* the consumer asks for the next output: the generator resumes after `yield`
GenResume ==
  /\ g_pc = "yield"
  /\ g_pc' = "delay"
  /\ UNCHANGED <<g_page, g_out, g_delays, g_calls, g_inflight>>
  /\ UNCHANGED <<scenarioVars, batVars, hashVars, sinkVars,
                 stockVars, pageVars, fileVars, unitVars>>

GenDelay ==
  /\ g_pc = "delay"
  /\ g_delays' = IF DelayNeeded(g_page, num_pages) THEN g_delays + 1 ELSE g_delays
  /\ g_page' = NextPage(g_page)
  /\ g_pc' = "loop"
  /\ UNCHANGED <<g_out, g_calls, g_inflight>>
  /\ UNCHANGED <<scenarioVars, batVars, hashVars, sinkVars,
                 stockVars, pageVars, fileVars, unitVars>>

\* range(1, num_pages + 1) is exhausted
GenExhausted ==
  /\ g_pc = "loop"
  /\ ~PageInRange(g_page, num_pages)
  /\ g_pc' = "done"
  /\ UNCHANGED <<g_page, g_out, g_delays, g_calls, g_inflight>>
  /\ UNCHANGED <<scenarioVars, batVars, hashVars, sinkVars,
                 stockVars, pageVars, fileVars, unitVars>>

(***************************************************************************)
(* scrape_pages_batched                                                    *)
(***************************************************************************)
\* the flush condition with only its last-page disjunct
BatchShouldFlushLastOnly(count, size, page, n) == page = n

\* the flush condition without its last-page disjunct
BatchShouldFlushNoLast(count, size, page, n) == count >= size

\* `if pages_in_current_batch >= batch_size or page == num_pages:` (:136)
BatchShouldFlush(count, size, page, n) == count >= size \/ page = n

\* a page counted although it is empty
BatchCountsPageAlways(articles) == TRUE

\* `if articles:` (:131) guards extend and the page counter
BatchCountsPage(articles) == articles # <<>>

\* the buffer kept after the yield
BatchKeepAfterYield(buf) == buf

\* `batch_articles = []` (:142)
BatchClearAfterYield(buf) == <<>>

\* `await self.scrape_page(page)` (:129) starts the call and suspends the generator
BatCall ==
  /\ b_pc = "loop"
  /\ PageInRange(b_page, num_pages)
  /\ g_pc \in {"done", "raised"}     \* the runs share no state: one after the other
  /\ b_calls' = Append(b_calls, b_page)
  /\ b_inflight' = b_inflight + 1
  /\ b_pc' = "fetching"
  /\ UNCHANGED <<b_page, batch_articles, pages_in_current_batch, b_out, b_delays>>
  /\ UNCHANGED <<scenarioVars, genVars, hashVars, sinkVars,
                 stockVars, pageVars, fileVars, unitVars>>

BatFetch ==
  /\ b_pc = "fetching"
  /\ b_inflight' = b_inflight - 1
  /\ IF ScrapePageRaises(b_page)
       THEN /\ b_pc' = "raised"
            /\ UNCHANGED <<batch_articles, pages_in_current_batch, b_out>>
       ELSE LET articles == ScrapePage(b_page)
                counted  == BatchCountsPage(articles)
                buf      == IF counted THEN batch_articles \o articles
                                       ELSE batch_articles
                cnt      == IF counted THEN pages_in_current_batch + 1
                                       ELSE pages_in_current_batch
            IN  /\ batch_articles' = buf
                /\ pages_in_current_batch' = cnt
                /\ IF BatchShouldFlush(cnt, batch_size, b_page, num_pages)
                      /\ buf # <<>>
                     THEN /\ b_out' = Append(b_out, buf)
                          /\ b_pc' = "yield"
                     ELSE /\ b_pc' = "delay"
                          /\ UNCHANGED b_out
  /\ UNCHANGED <<b_page, b_delays, b_calls>>
  /\ UNCHANGED <<scenarioVars, genVars, hashVars, sinkVars,
                 stockVars, pageVars, fileVars, unitVars>>

\* the consumer asks for the next batch: the buffer and its counter are reset
BatResume ==
  /\ b_pc = "yield"
  /\ batch_articles' = BatchClearAfterYield(batch_articles)
  /\ pages_in_current_batch' = 0
  /\ b_pc' = "delay"
  /\ UNCHANGED <<b_page, b_out, b_delays, b_calls, b_inflight>>
  /\ UNCHANGED <<scenarioVars, genVars, hashVars, sinkVars,
                 stockVars, pageVars, fileVars, unitVars>>

BatDelay ==
  /\ b_pc = "delay"
  /\ b_delays' = IF DelayNeeded(b_page, num_pages) THEN b_delays + 1 ELSE b_delays
  /\ b_page' = NextPage(b_page)
  /\ b_pc' = "loop"
  /\ UNCHANGED <<batch_articles, pages_in_current_batch, b_out, b_calls, b_inflight>>
  /\ UNCHANGED <<scenarioVars, genVars, hashVars, sinkVars,
                 stockVars, pageVars, fileVars, unitVars>>

BatExhausted ==
  /\ b_pc = "loop"
  /\ ~PageInRange(b_page, num_pages)
  /\ g_pc \in {"done", "raised"}
  /\ b_pc' = "done"
  /\ UNCHANGED <<b_page, batch_articles, pages_in_current_batch, b_out, b_delays,
                 b_calls, b_inflight>>
  /\ UNCHANGED <<scenarioVars, genVars, hashVars, sinkVars,
                 stockVars, pageVars, fileVars, unitVars>>

(***************************************************************************)
(* Strings are sequences of characters.  The alphabet has a letter in both *)
(* cases, a whitespace character and the delimiter.                        *)
(***************************************************************************)
Chars == {"a", "A", " ", "|"}

\* str.lower() and str.upper() on one character
LowerChar(c) == IF c = "A" THEN "a" ELSE c

UpperChar(c) == IF c = "a" THEN "A" ELSE c

IsSpace(c) == c = " "

StrLower(s) == [i \in 1..Len(s) |-> LowerChar(s[i])]

StrUpper(s) == [i \in 1..Len(s) |-> UpperChar(s[i])]

RECURSIVE LStrip(_)
LStrip(s) == IF s # <<>> /\ IsSpace(Head(s)) THEN LStrip(Tail(s)) ELSE s

RECURSIVE RStrip(_)
RStrip(s) ==
  IF s # <<>> /\ IsSpace(s[Len(s)]) THEN RStrip(SubSeq(s, 1, Len(s) - 1)) ELSE s

\* str.strip()
StrStrip(s) == RStrip(LStrip(s))

\* datetime.now().strftime('%Y-%m-%d'): one token per calendar day
DayNames == <<"2024-12-15", "2024-12-16", "2024-12-17", "2024-12-18">>

StrfTime(day) == <<DayNames[day]>>

\* hashlib.sha256(combined.encode('utf-8')) followed by base64.b64encode: a
\* deterministic digest of the combined string, taken to be free of collisions
\* (distinct strings have distinct digests), so the digest is named by its preimage.
Sha256Base64(combined) == [sha256_base64_of |-> combined]

\* the f-string of generate_article_hash with the delimiter left out
ArticleCombinedNoDelimiter(title, date) ==
  StrStrip(StrLower(title)) \o StrStrip(StrLower(date))

\* f"{title.lower().strip()}|{date.lower().strip()}" (crawl4ai_scraper.py:64)
ArticleCombined(title, date) ==
  StrStrip(StrLower(title)) \o <<"|">> \o StrStrip(StrLower(date))

generate_article_hash(title, date) == Sha256Base64(ArticleCombined(title, date))

\* f"{country.lower().strip()}|{tab.lower().strip()}|{indicator.lower().strip()}"
IndicatorCombined(country, tab, indicator) ==
  StrStrip(StrLower(country)) \o <<"|">> \o StrStrip(StrLower(tab))
     \o <<"|">> \o StrStrip(StrLower(indicator))

generate_indicator_hash(country, tab, indicator) ==
  Sha256Base64(IndicatorCombined(country, tab, indicator))

\* f"{symbol.upper()}|{date}|{datetime.now().strftime('%Y-%m-%d')}"
StockCombined(symbol, date, now) ==
  StrUpper(symbol) \o <<"|">> \o date \o <<"|">> \o StrfTime(now)

generate_stock_hash(symbol, date, now) == Sha256Base64(StockCombined(symbol, date, now))

\* number of arguments of each generator
Arity(kind) == IF kind = "indicator" THEN 3 ELSE 2

\* the fingerprint the generator `kind` returns for the argument list `args`
Fingerprint(kind, args, now) ==
  CASE kind = "article"   -> generate_article_hash(args[1], args[2])
    [] kind = "indicator" -> generate_indicator_hash(args[1], args[2], args[3])
    [] kind = "stock"     -> generate_stock_hash(args[1], args[2], now)

RECURSIVE StringsOfLen(_)
StringsOfLen(n) ==
  IF n = 0 THEN {<<>>}
  ELSE {<<c>> \o s : c \in Chars, s \in StringsOfLen(n - 1)}

StringsUpTo(n) == UNION {StringsOfLen(k) : k \in 0..n}

\* the lists of k strings holding at most `budget` characters together
RECURSIVE ListsOf(_, _)
ListsOf(k, budget) ==
  IF k = 0 THEN {<<>>}
  ELSE UNION {{<<s>> \o rest : rest \in ListsOf(k - 1, budget - Len(s))} :
                s \in StringsUpTo(budget)}

RECURSIVE TotalLen(_)
TotalLen(list) == IF list = <<>> THEN 0 ELSE Len(Head(list)) + TotalLen(Tail(list))

\* one call of the fingerprint generator `kind`; the second call follows the first
CallHash(kind) ==
  /\ h_kind = kind
  /\ h_pc \in {1, 2}
  /\ IF h_pc = 1
       THEN /\ h_out1' = <<Fingerprint(h_kind, h_in1, today)>>
            /\ h_day1' = today
            /\ UNCHANGED <<h_out2, h_day2>>
       ELSE /\ h_out2' = <<Fingerprint(h_kind, h_in2, today)>>
            /\ h_day2' = today
            /\ UNCHANGED <<h_out1, h_day1>>
  /\ h_pc' = h_pc + 1
  /\ UNCHANGED <<h_kind, h_in1, h_in2, today>>
  /\ UNCHANGED <<iterVars, sinkVars, stockVars, pageVars, fileVars, unitVars>>

GenerateArticleHash == CallHash("article")

GenerateIndicatorHash == CallHash("indicator")

GenerateStockHash == CallHash("stock")

\* midnight: datetime.now() moves to the next calendar day
DayPasses ==
  /\ h_pc \in {1, 2}
  /\ today < MaxDay
  /\ today' = today + 1
  /\ UNCHANGED <<h_kind, h_in1, h_in2, h_pc, h_day1, h_day2, h_out1, h_out2>>
  /\ UNCHANGED <<iterVars, sinkVars, stockVars, pageVars, fileVars, unitVars>>

HashIdle ==
  /\ h_kind = "article" /\ h_in1 = <<>> /\ h_in2 = <<>> /\ today = 1
  /\ h_pc = 3 /\ h_day1 = 0 /\ h_day2 = 0 /\ h_out1 = <<>> /\ h_out2 = <<>>

IterIdle ==
  /\ num_pages = 0 /\ batch_size = 1 /\ pageLen = [p \in 1..MaxPages |-> 0]
  /\ failPage = 0
  /\ g_pc = "done" /\ g_page = 1 /\ g_out = <<>> /\ g_delays = 0
  /\ g_calls = <<>> /\ g_inflight = 0
  /\ b_pc = "done" /\ b_page = 1 /\ batch_articles = <<>>
  /\ pages_in_current_batch = 0 /\ b_out = <<>> /\ b_delays = 0
  /\ b_calls = <<>> /\ b_inflight = 0

(***************************************************************************)
(* The document store.  A Record carries its fingerprint in "hash" and its *)
(* other fields in "val"; the collection is the list of its documents.     *)
(***************************************************************************)
Hashes == {"h1", "h2"}

Vals == {"v1", "v2"}

Records == [hash : Hashes, val : Vals]

\* {"$set": rec}: the fields of rec replace those of the document, the other
\* fields of the document stay
SetFields(doc, rec) ==
  [f \in (DOMAIN doc) \cup (DOMAIN rec) |-> IF f \in DOMAIN rec THEN rec[f] ELSE doc[f]]

Matching(coll, h) == {i \in 1..Len(coll) : coll[i].hash = h}

Min(S) == CHOOSE x \in S : \A y \in S : x <= y

\* UpdateOne({"hash": rec["hash"]}, {"$set": rec}, upsert=upsert) on the
\* collection: the first matching document is updated; with none and upsert set,
\* the Record is inserted
UpdateOne(w, rec, upsert) ==
  LET m == Matching(w.coll, rec.hash) IN
  IF m # {}
    THEN LET i == Min(m)
             new == SetFields(w.coll[i], rec)
         IN  [coll |-> [w.coll EXCEPT ![i] = new],
              upserted |-> w.upserted,
              modified |-> w.modified + (IF new # w.coll[i] THEN 1 ELSE 0)]
    ELSE IF upsert
      THEN [coll |-> Append(w.coll, rec),
            upserted |-> w.upserted + 1,
            modified |-> w.modified]
      ELSE w

\* the operations ops[order[1]], ops[order[2]], ... applied one after the other,
\* those in `failing` being rejected by the server
RECURSIVE ApplyInOrder(_, _, _, _, _, _)
ApplyInOrder(w, ops, order, failing, upsert, k) ==
  IF k > Len(ops) THEN w
  ELSE LET i == order[k] IN
       ApplyInOrder(IF i \in failing THEN w ELSE UpdateOne(w, ops[i], upsert),
                    ops, order, failing, upsert, k + 1)

\* the orders in which the server may perform the requests of a bulk write kept in
\* the order given (ordered=True)
SubmissionOrderOnly(n) == {[i \in 1..n |-> i]}

\* bulk_write(operations, ordered=False): the requests are performed in
\* arbitrary order
BulkWriteOrders(n) == Permutations(1..n)

\* collection.bulk_write(ops, ordered=False): every outcome it can have.  Either
\* all requests succeed, or the server rejects some of them, performs the others
\* and BulkWriteError is raised, or the call fails as a whole with another
\* exception (the connection is lost) and nothing is written.
BulkWrite(coll, ops, upsert) ==
  LET w0 == [coll |-> coll, upserted |-> 0, modified |-> 0] IN
  {[error |-> IF failing = {} THEN "none" ELSE "BulkWriteError",
    result |-> ApplyInOrder(w0, ops, order, failing, upsert, 1)] :
      order \in BulkWriteOrders(Len(ops)), failing \in SUBSET (1..Len(ops))}
  \cup {[error |-> "Exception", result |-> w0]}

\* one more bulk_write call in the record of the calls made
Written(ops, error) == Append(s_writes, [ops |-> ops, error |-> error])

HasDuplicateHash(coll) ==
  \E i, j \in 1..Len(coll) : i # j /\ coll[i].hash = coll[j].hash

\* MongoDBUploader.create_indexes, called once the uploader is connected and
\* before any upload: the unique index on "hash" is built, or create_index raises
\* (always when two documents already share a hash), which is caught and logged
CreateIndexes ==
  /\ s_pc = "start"
  /\ \/ /\ ~HasDuplicateHash(collection)
        /\ unique_index' = TRUE
     \/ UNCHANGED unique_index
  /\ s_pc' = IF s_kind = "dual_output" THEN "open" ELSE "loop"
  /\ UNCHANGED <<s_kind, stream, s_pos, mongo_batch_size, s_upsert, operations,
                 collection, stats, s_writes, json_file>>
  /\ UNCHANGED <<iterVars, hashVars, stockVars, pageVars, fileVars, unitVars>>

(***************************************************************************)
(* MongoDBUploader.upload_streaming (screener_scraper.py)                  *)
(***************************************************************************)
\* a buffer flushed only once it holds more than batch_size operations
BufferOverfull(count, size) == count > size

\* `if len(operations) >= batch_size:` (:850),
\* `if len(operations) >= args.mongodb_batch_size:` (:1094)
BufferFull(count, size) == count >= size

\* one iteration of `async for stock_data in data_async_iterator`
UploadStreamingConsume ==
  /\ s_kind = "upload_streaming"
  /\ s_pc = "loop"
  /\ s_pos < Len(stream)
  /\ s_pos' = s_pos + 1
  /\ LET ops == Append(operations, stream[s_pos + 1]) IN
     IF BufferFull(Len(ops), mongo_batch_size)
       THEN \E o \in BulkWrite(collection, ops, s_upsert) :
              /\ collection' = o.result.coll
              /\ s_writes' = Written(ops, o.error)
              /\ IF o.error = "none"
                   THEN /\ stats' = [stats EXCEPT
                                       !.inserted = @ + o.result.upserted,
                                       !.updated = @ + o.result.modified]
                        /\ operations' = <<>>
                        /\ s_pc' = "loop"
                   ELSE \* except BulkWriteError / except Exception: return stats
                        /\ stats' = [stats EXCEPT !.failed = Len(ops)]
                        /\ operations' = ops
                        /\ s_pc' = "returned"
       ELSE /\ operations' = ops
            /\ UNCHANGED <<collection, stats, s_pc, s_writes>>
  /\ UNCHANGED <<s_kind, stream, mongo_batch_size, s_upsert, unique_index, json_file>>
  /\ UNCHANGED <<iterVars, hashVars, stockVars, pageVars, fileVars, unitVars>>

\* the stream is exhausted: flush the remaining operations and return
UploadStreamingFinish ==
  /\ s_kind = "upload_streaming"
  /\ s_pc = "loop"
  /\ s_pos = Len(stream)
  /\ s_pc' = "returned"
  /\ IF operations # <<>>
       THEN \E o \in BulkWrite(collection, operations, s_upsert) :
              /\ collection' = o.result.coll
              /\ s_writes' = Written(operations, o.error)
              /\ stats' = IF o.error = "none"
                            THEN [stats EXCEPT
                                    !.inserted = @ + o.result.upserted,
                                    !.updated = @ + o.result.modified]
                            ELSE [stats EXCEPT !.failed = Len(operations)]
       ELSE UNCHANGED <<collection, stats, s_writes>>
  /\ UNCHANGED <<s_kind, stream, s_pos, mongo_batch_size, s_upsert, operations,
                 unique_index, json_file>>
  /\ UNCHANGED <<iterVars, hashVars, stockVars, pageVars, fileVars, unitVars>>

(***************************************************************************)
(* main.dual_output_processor (screener_scraper.py)                        *)
(***************************************************************************)
\* entry: the output file is opened and the array opened
DualOutputOpen ==
  /\ s_kind = "dual_output"
  /\ s_pc = "open"
  /\ json_file' = <<"[">>
  /\ s_pc' = "loop"
  /\ UNCHANGED <<s_kind, stream, s_pos, mongo_batch_size, s_upsert, operations,
                 collection, stats, s_writes, unique_index>>
  /\ UNCHANGED <<iterVars, hashVars, stockVars, pageVars, fileVars, unitVars>>

\* one iteration of `async for stock_data in scraper.scrape_stocks_generator(...)`
DualOutputConsume ==
  /\ s_kind = "dual_output"
  /\ s_pc = "loop"
  /\ s_pos < Len(stream)
  /\ s_pos' = s_pos + 1
  \* `first` holds until the first Record has been written
  /\ json_file' = json_file \o (IF s_pos = 0 THEN <<>> ELSE <<",">>)
                             \o <<stream[s_pos + 1]>>
  /\ LET ops == Append(operations, stream[s_pos + 1]) IN
     IF BufferFull(Len(ops), mongo_batch_size)
       THEN \E o \in BulkWrite(collection, ops, TRUE) :
              /\ collection' = o.result.coll
              /\ s_writes' = Written(ops, o.error)
              /\ CASE o.error = "none" ->
                        /\ stats' = [stats EXCEPT
                                       !.inserted = @ + o.result.upserted,
                                       !.updated = @ + o.result.modified]
                        /\ operations' = <<>>
                        /\ s_pc' = "loop"
                   [] o.error = "BulkWriteError" ->
                        /\ stats' = [stats EXCEPT !.failed = @ + Len(ops)]
                        /\ operations' = <<>>
                        /\ s_pc' = "loop"
                   [] o.error = "Exception" ->
                        \* not caught: it leaves dual_output_processor
                        /\ operations' = ops
                        /\ s_pc' = "raised"
                        /\ UNCHANGED stats
       ELSE /\ operations' = ops
            /\ UNCHANGED <<collection, stats, s_pc, s_writes>>
  /\ UNCHANGED <<s_kind, stream, mongo_batch_size, s_upsert, unique_index>>
  /\ UNCHANGED <<iterVars, hashVars, stockVars, pageVars, fileVars, unitVars>>

\* the generator is exhausted: flush the remaining operations, close the array
\* and return stats
DualOutputFinish ==
  /\ s_kind = "dual_output"
  /\ s_pc = "loop"
  /\ s_pos = Len(stream)
  /\ IF operations # <<>>
       THEN \E o \in BulkWrite(collection, operations, TRUE) :
              /\ collection' = o.result.coll
              /\ s_writes' = Written(operations, o.error)
              /\ CASE o.error = "none" ->
                        /\ stats' = [stats EXCEPT
                                       !.inserted = @ + o.result.upserted,
                                       !.updated = @ + o.result.modified]
                        /\ s_pc' = "returned"
                   [] o.error = "BulkWriteError" ->
                        /\ stats' = [stats EXCEPT !.failed = @ + Len(operations)]
                        /\ s_pc' = "returned"
                   [] o.error = "Exception" ->
                        /\ s_pc' = "raised"
                        /\ UNCHANGED stats
       ELSE /\ s_pc' = "returned"
            /\ UNCHANGED <<collection, stats, s_writes>>
  \* f.write('\n]') is reached unless the flush raised
  /\ json_file' = IF s_pc' = "returned" THEN Append(json_file, "]") ELSE json_file
  /\ UNCHANGED <<s_kind, stream, s_pos, mongo_batch_size, s_upsert, operations,
                 unique_index>>
  /\ UNCHANGED <<iterVars, hashVars, stockVars, pageVars, fileVars, unitVars>>

(***************************************************************************)
(* Cancellation of the task running a streaming sink.  The sink's only     *)
(* suspension point is the `async for` (:836, :1069), where it waits for   *)
(* the generator's fetch or delay: bulk_write and the file writes are      *)
(* synchronous.  asyncio raises CancelledError there.  Neither sink has a  *)
(* `finally`, and no handler submits the buffer.                           *)
(***************************************************************************)
SinkCancel ==
  /\ s_kind \in {"upload_streaming", "dual_output"}
  /\ s_pc = "loop"
  /\ \/ \* CancelledError is a BaseException (Python >= 3.8): no handler of
        \* either sink catches it and it leaves the sink
        /\ s_pc' = "cancelled"
        /\ UNCHANGED stats
     \/ \* CancelledError is an Exception (Python 3.7): `except Exception`
        \* (:874) of upload_streaming catches it and stats is returned
        /\ s_kind = "upload_streaming"
        /\ stats' = [stats EXCEPT !.failed = Len(operations)]
        /\ s_pc' = "cancel_caught"
  /\ UNCHANGED <<s_kind, stream, s_pos, mongo_batch_size, s_upsert, operations,
                 collection, s_writes, unique_index, json_file>>
  /\ UNCHANGED <<iterVars, hashVars, stockVars, pageVars, fileVars, unitVars>>

(***************************************************************************)
(* MongoDBUploader.upload_articles (upload_to_mongodb.py); the bulk upsert *)
(* of the indicators main has the shape of its upsert mode.  Records carry *)
(* "hash" and "val"; upload_articles adds the uploaded_at timestamp.       *)
(***************************************************************************)
\* the readings of datetime.now() in a loop over n articles: the clock never
\* runs backwards here, and two readings in a row may be equal
UploadTimes(n) ==
  {at \in [1..n -> 1..n] :
     /\ n > 0 => at[1] = 1
     /\ \A i \in 1..(n - 1) : at[i + 1] \in {at[i], at[i] + 1}}

\* article['uploaded_at'] = datetime.now().isoformat() (:207, :238)
WithUploadedAt(articles, at) ==
  [i \in 1..Len(articles) |->
     [hash |-> articles[i].hash, val |-> articles[i].val, uploaded_at |-> at[i]]]

\* collection.insert_one(article) for articles[k], articles[k+1], ...: the insert
\* is refused with a duplicate key error when the unique index exists and a
\* document has the hash (counted as skipped), it fails otherwise for the
\* articles in `failing` (counted as failed), and else the document is added
RECURSIVE InsertEach(_, _, _, _, _)
InsertEach(w, articles, failing, unique, k) ==
  IF k > Len(articles) THEN w
  ELSE LET a == articles[k] IN
       InsertEach(
         IF unique /\ Matching(w.coll, a.hash) # {}
           THEN [w EXCEPT !.skipped = @ + 1]
         ELSE IF k \in failing
           THEN [w EXCEPT !.failed = @ + 1]
         ELSE [w EXCEPT !.coll = Append(@, a), !.inserted = @ + 1],
         articles, failing, unique, k + 1)

UploadArticles ==
  /\ s_kind = "upload_articles"
  /\ s_pc = "loop"
  /\ s_pc' = "returned"
  /\ s_pos' = Len(stream)
  /\ IF stream = <<>>
       THEN UNCHANGED <<collection, stats, s_writes, operations>>
     ELSE IF s_upsert
       THEN \E at \in UploadTimes(Len(stream)) :
            \E o \in BulkWrite(collection, WithUploadedAt(stream, at), TRUE) :
              /\ operations' = WithUploadedAt(stream, at)
              /\ collection' = o.result.coll
              /\ s_writes' = Written(WithUploadedAt(stream, at), o.error)
              /\ stats' = IF o.error = "none"
                            THEN [stats EXCEPT
                                    !.inserted = o.result.upserted,
                                    !.updated = o.result.modified]
                            ELSE [stats EXCEPT !.failed = Len(stream)]
       ELSE \E at \in UploadTimes(Len(stream)), failing \in SUBSET (1..Len(stream)) :
              LET w == InsertEach([coll |-> collection, inserted |-> 0,
                                   skipped |-> 0, failed |-> 0],
                                  WithUploadedAt(stream, at), failing, unique_index, 1)
              IN  /\ collection' = w.coll
                  /\ stats' = [stats EXCEPT !.inserted = w.inserted,
                                            !.skipped = w.skipped,
                                            !.failed = w.failed]
                  /\ UNCHANGED <<s_writes, operations>>
  /\ UNCHANGED <<s_kind, stream, mongo_batch_size, s_upsert, unique_index, json_file>>
  /\ UNCHANGED <<iterVars, hashVars, stockVars, pageVars, fileVars, unitVars>>

SinkIdle ==
  /\ s_kind = "upload_streaming" /\ stream = <<>> /\ s_pos = 0
  /\ mongo_batch_size = 1 /\ s_upsert = TRUE /\ operations = <<>>
  /\ collection = <<>>
  /\ stats = [inserted |-> 0, updated |-> 0, skipped |-> 0, failed |-> 0]
  /\ s_pc = "returned" /\ s_writes = <<>>
  /\ unique_index = FALSE /\ json_file = <<>>

RECURSIVE SeqsUpTo(_, _)
SeqsUpTo(S, n) ==
  IF n = 0 THEN {<<>>}
  ELSE LET shorter == SeqsUpTo(S, n - 1) IN
       shorter \cup {Append(q, x) : q \in {r \in shorter : Len(r) = n - 1}, x \in S}

(***************************************************************************)
(* The stock loops of the screener scraper: scrape_stocks_generator,       *)
(* scrape_stocks_batched and the standard method of main.  scrape_stock    *)
(* returns the stock's data or None; it catches its own exceptions.  The   *)
(* log records each call of scrape_stock and each asyncio.sleep(delay) of  *)
(* the loop, with the position of the symbol it follows.                   *)
(***************************************************************************)
\* the value of `stock_data`: <<data>> or, for None, <<>>
ScrapeStock(i) == IF stockOk[i] THEN <<symbols[i]>> ELSE <<>>

\* `if i < len(symbols):` (screener_scraper.py:654 and :697)
StockDelayNeeded(i, n) == i < n

\* `if len(batch_data) >= batch_size or i == len(symbols):` (:690)
StockBatchShouldFlush(count, size, i, n) == count >= size \/ i = n

StocksGenFetch ==
  /\ k_method = "generator" /\ k_pc = "loop"
  /\ k_i <= Len(symbols)
  /\ k_log' = Append(k_log, <<"fetch", k_i>>)
  /\ LET stock_data == ScrapeStock(k_i) IN
     IF stock_data # <<>>
       THEN /\ k_out' = Append(k_out, stock_data[1])
            /\ k_pc' = "yield"
       ELSE /\ k_pc' = "delay"
            /\ UNCHANGED k_out
  /\ UNCHANGED <<k_method, symbols, stockOk, k_batch_size, k_i, batch_data, all_stocks>>
  /\ UNCHANGED <<iterVars, hashVars, sinkVars, pageVars, fileVars, unitVars>>

StocksGenResume ==
  /\ k_method = "generator" /\ k_pc = "yield"
  /\ k_pc' = "delay"
  /\ UNCHANGED <<k_method, symbols, stockOk, k_batch_size, k_i, batch_data, k_out,
                 all_stocks, k_log>>
  /\ UNCHANGED <<iterVars, hashVars, sinkVars, pageVars, fileVars, unitVars>>

StocksGenDelay ==
  /\ k_method = "generator" /\ k_pc = "delay"
  /\ k_log' = IF StockDelayNeeded(k_i, Len(symbols))
                THEN Append(k_log, <<"sleep", k_i>>) ELSE k_log
  /\ k_i' = k_i + 1
  /\ k_pc' = "loop"
  /\ UNCHANGED <<k_method, symbols, stockOk, k_batch_size, batch_data, k_out, all_stocks>>
  /\ UNCHANGED <<iterVars, hashVars, sinkVars, pageVars, fileVars, unitVars>>

StocksGenExhausted ==
  /\ k_method = "generator" /\ k_pc = "loop"
  /\ k_i > Len(symbols)
  /\ k_pc' = "done"
  /\ UNCHANGED <<k_method, symbols, stockOk, k_batch_size, k_i, batch_data, k_out,
                 all_stocks, k_log>>
  /\ UNCHANGED <<iterVars, hashVars, sinkVars, pageVars, fileVars, unitVars>>

StocksBatFetch ==
  /\ k_method = "batched" /\ k_pc = "loop"
  /\ k_i <= Len(symbols)
  /\ k_log' = Append(k_log, <<"fetch", k_i>>)
  /\ LET stock_data == ScrapeStock(k_i)
         buf == IF stock_data # <<>> THEN Append(batch_data, stock_data[1])
                                     ELSE batch_data
     IN  /\ batch_data' = buf
         /\ IF StockBatchShouldFlush(Len(buf), k_batch_size, k_i, Len(symbols))
               /\ buf # <<>>
              THEN /\ k_out' = Append(k_out, buf)
                   /\ k_pc' = "yield"
              ELSE /\ k_pc' = "delay"
                   /\ UNCHANGED k_out
  /\ UNCHANGED <<k_method, symbols, stockOk, k_batch_size, k_i, all_stocks>>
  /\ UNCHANGED <<iterVars, hashVars, sinkVars, pageVars, fileVars, unitVars>>

\* the consumer asks for the next batch: `batch_data = []` (:694)
StocksBatResume ==
  /\ k_method = "batched" /\ k_pc = "yield"
  /\ batch_data' = <<>>
  /\ k_pc' = "delay"
  /\ UNCHANGED <<k_method, symbols, stockOk, k_batch_size, k_i, k_out, all_stocks, k_log>>
  /\ UNCHANGED <<iterVars, hashVars, sinkVars, pageVars, fileVars, unitVars>>

StocksBatDelay ==
  /\ k_method = "batched" /\ k_pc = "delay"
  /\ k_log' = IF StockDelayNeeded(k_i, Len(symbols))
                THEN Append(k_log, <<"sleep", k_i>>) ELSE k_log
  /\ k_i' = k_i + 1
  /\ k_pc' = "loop"
  /\ UNCHANGED <<k_method, symbols, stockOk, k_batch_size, batch_data, k_out, all_stocks>>
  /\ UNCHANGED <<iterVars, hashVars, sinkVars, pageVars, fileVars, unitVars>>

StocksBatExhausted ==
  /\ k_method = "batched" /\ k_pc = "loop"
  /\ k_i > Len(symbols)
  /\ k_pc' = "done"
  /\ UNCHANGED <<k_method, symbols, stockOk, k_batch_size, k_i, batch_data, k_out,
                 all_stocks, k_log>>
  /\ UNCHANGED <<iterVars, hashVars, sinkVars, pageVars, fileVars, unitVars>>

\* main, standard method: `for symbol in symbols:` (:1154-1157)
StandardFetch ==
  /\ k_method = "standard" /\ k_pc = "loop"
  /\ k_i <= Len(symbols)
  /\ k_log' = Append(k_log, <<"fetch", k_i>>)
  /\ LET stock_data == ScrapeStock(k_i) IN
     all_stocks' = IF stock_data # <<>> THEN Append(all_stocks, stock_data[1])
                                        ELSE all_stocks
  /\ k_pc' = "delay"
  /\ UNCHANGED <<k_method, symbols, stockOk, k_batch_size, k_i, batch_data, k_out>>
  /\ UNCHANGED <<iterVars, hashVars, sinkVars, pageVars, fileVars, unitVars>>

\* `await asyncio.sleep(args.delay)` (:1158), under no condition
StandardSleep ==
  /\ k_method = "standard" /\ k_pc = "delay"
  /\ k_log' = Append(k_log, <<"sleep", k_i>>)
  /\ k_i' = k_i + 1
  /\ k_pc' = "loop"
  /\ UNCHANGED <<k_method, symbols, stockOk, k_batch_size, batch_data, k_out, all_stocks>>
  /\ UNCHANGED <<iterVars, hashVars, sinkVars, pageVars, fileVars, unitVars>>

\* the loop is over: `scraper.save_to_json(all_stocks, args.output)` (:1160)
StandardExhausted ==
  /\ k_method = "standard" /\ k_pc = "loop"
  /\ k_i > Len(symbols)
  /\ k_pc' = "done"
  /\ UNCHANGED <<k_method, symbols, stockOk, k_batch_size, k_i, batch_data, k_out,
                 all_stocks, k_log>>
  /\ UNCHANGED <<iterVars, hashVars, sinkVars, pageVars, fileVars, unitVars>>

StockIdle ==
  /\ k_method = "generator" /\ symbols = <<>>
  /\ stockOk = [i \in 1..MaxSymbols |-> TRUE]
  /\ k_batch_size = 1 /\ k_i = 1 /\ k_pc = "done"
  /\ batch_data = <<>> /\ k_out = <<>> /\ all_stocks = <<>> /\ k_log = <<>>

(***************************************************************************)
(* scrape_page of the MoneyControl scrapers.  An extracted article is a    *)
(* dict with "url", "title" and "date"; the key "hash" is present once it  *)
(* has been assigned.  Article i has a title of i letters.                 *)
(***************************************************************************)
ArticleTitle(i) == [j \in 1..i |-> "a"]

\* the date the detail page of article i carries
DetailDate(i) == [j \in 1..i |-> "A"]

\* extract_article_data on the i-th container of the listing page
ExtractedArticle(i) == [url |-> i, title |-> ArticleTitle(i), date |-> <<>>]

ExtractedArticles(n) == [i \in 1..n |-> ExtractedArticle(i)]

\* article[key] = value
SetKey(article, key, value) ==
  [k \in DOMAIN article \cup {key} |-> IF k = key THEN value ELSE article[k]]

\* the author and the text the detail page of article i carries
DetailAuthor(i) == [j \in 1..i |-> "|"]

DetailContent(i) == [j \in 1..i |-> " "]

\* what a detail task ends with: a dict of details or an exception
NoDetail == [kind |-> "none", date |-> <<>>, author |-> <<>>, full_content |-> <<>>]

\* the outcomes of the task of article i: the details of its page, its date
\* alone, the empty details of a failed fetch, or an exception
DetailResults(i) ==
  { [kind |-> "dict", date |-> DetailDate(i), author |-> DetailAuthor(i),
     full_content |-> DetailContent(i)],
    [kind |-> "dict", date |-> DetailDate(i), author |-> <<>>, full_content |-> <<>>],
    [kind |-> "dict", date |-> <<>>, author |-> <<>>, full_content |-> <<>>],
    [kind |-> "exception", date |-> <<>>, author |-> <<>>, full_content |-> <<>>] }

\* a pairing that gives every article the first task's result
ZipDetailFirst(details, i) == details[1]

\* `zip(articles, details)` (:339): asyncio.gather returns the results in the
\* order of the awaitables it was given, whatever order they ended in
ZipDetail(details, i) == details[i]

\* the body of `for article, detail in zip(articles, details):` (:339-362)
UpdateWithDetail(article, detail) ==
  LET isDict  == detail.kind = "dict"
      date    == IF isDict THEN detail.date ELSE <<>>
      dated   == SetKey(article, "date", date)
      author  == SetKey(dated, "author", IF isDict THEN detail.author ELSE <<>>)
      content == SetKey(author, "full_content",
                        IF isDict THEN detail.full_content ELSE <<>>)
  IN  SetKey(content, "hash", generate_article_hash(content.title, date))

\* the body of `for article in articles:` (:368-372), details not fetched
HashFromListing(article) ==
  SetKey(article, "hash", generate_article_hash(article.title, article.date))

\* the filter of the upsert operation upload_articles builds for an article
\* (upload_to_mongodb.py:211): its hash or, when it has none, its url
FilterKey(article) ==
  IF "hash" \in DOMAIN article THEN [hash |-> article.hash]
                               ELSE [url |-> article.url]

\* asyncio.Semaphore.locked(), as a semaphore that never blocks would have it
SemaphoreNeverLocked(value) == FALSE

\* asyncio.Semaphore.locked(): acquire() waits while the counter is 0
SemaphoreLocked(value) == value = 0

\* crawler.arun of the listing page and the extraction loop (:279-317).  A
\* result that is not a success returns []; an exception from AsyncWebCrawler
\* or arun is caught at :374 and `return articles` returns the empty list.
Crawl4aiCrawl ==
  /\ p_kind = "crawl4ai" /\ p_pc = "start"
  /\ \E outcome \in {"ok", "unsuccessful", "exception"} :
       IF outcome = "ok"
         THEN \E n \in 0..MaxArticles :
                /\ p_articles' = ExtractedArticles(n)
                /\ p_pc' = "extracted"
                /\ UNCHANGED <<p_failed, p_result>>
         ELSE /\ p_failed' = TRUE
              /\ p_result' = <<p_articles>>
              /\ p_pc' = "returned"
              /\ UNCHANGED p_articles
  /\ UNCHANGED <<p_kind, fetch_details, max_concurrent, p_attempt, p_task,
                 sem_value, p_details>>
  /\ UNCHANGED <<iterVars, hashVars, sinkVars, stockVars, fileVars, unitVars>>

\* `if self.fetch_details and articles:` (:320): the semaphore and the detail
\* tasks are created and gathered; Semaphore raises ValueError for a negative
\* value, which is caught at :374 and followed by `return articles`.  Without
\* details every article gets its hash from the listing and is returned.
Crawl4aiBranch ==
  /\ p_kind = "crawl4ai" /\ p_pc = "extracted"
  /\ IF fetch_details /\ p_articles # <<>>
       THEN IF max_concurrent < 0
              THEN /\ p_result' = <<p_articles>>
                   /\ p_pc' = "returned"
                   /\ UNCHANGED <<p_articles, p_task, sem_value>>
              ELSE /\ sem_value' = max_concurrent
                   /\ p_task' = [i \in 1..MaxArticles |->
                                   IF i <= Len(p_articles) THEN "created" ELSE "none"]
                   /\ p_pc' = "gather"
                   /\ UNCHANGED <<p_articles, p_result>>
       ELSE /\ p_articles' = [i \in 1..Len(p_articles) |-> HashFromListing(p_articles[i])]
            /\ p_result' = <<p_articles'>>
            /\ p_pc' = "returned"
            /\ UNCHANGED <<p_task, sem_value>>
  /\ UNCHANGED <<p_kind, fetch_details, max_concurrent, p_attempt, p_failed, p_details>>
  /\ UNCHANGED <<iterVars, hashVars, sinkVars, stockVars, fileVars, unitVars>>

\* fetch_with_semaphore: `async with semaphore:` is entered (:327) and
\* fetch_article_details is called (:328)
DetailAcquire ==
  /\ p_pc = "gather"
  /\ \E i \in 1..MaxArticles :
       /\ p_task[i] = "created"
       /\ ~SemaphoreLocked(sem_value)
       /\ sem_value' = sem_value - 1
       /\ p_task' = [p_task EXCEPT ![i] = "fetching"]
  /\ UNCHANGED <<p_kind, fetch_details, max_concurrent, p_pc, p_attempt, p_failed,
                 p_articles, p_details, p_result>>
  /\ UNCHANGED <<iterVars, hashVars, sinkVars, stockVars, fileVars, unitVars>>

\* fetch_article_details ends: with a dict, and the task goes on to its
\* random sleep (:330) inside the semaphore; or with an exception, which
\* leaves `async with` and releases the semaphore
DetailFetched ==
  /\ p_pc = "gather"
  /\ \E i \in 1..MaxArticles :
       /\ p_task[i] = "fetching"
       /\ \E detail \in DetailResults(i) :
            /\ p_details' = [p_details EXCEPT ![i] = detail]
            /\ IF detail.kind = "dict"
                 THEN /\ p_task' = [p_task EXCEPT ![i] = "sleeping"]
                      /\ UNCHANGED sem_value
                 ELSE /\ p_task' = [p_task EXCEPT ![i] = "done"]
                      /\ sem_value' = sem_value + 1
  /\ UNCHANGED <<p_kind, fetch_details, max_concurrent, p_pc, p_attempt, p_failed,
                 p_articles, p_result>>
  /\ UNCHANGED <<iterVars, hashVars, sinkVars, stockVars, fileVars, unitVars>>

\* the sleep is over: `return detail` leaves `async with` (:331)
DetailRelease ==
  /\ p_pc = "gather"
  /\ \E i \in 1..MaxArticles :
       /\ p_task[i] = "sleeping"
       /\ p_task' = [p_task EXCEPT ![i] = "done"]
       /\ sem_value' = sem_value + 1
  /\ UNCHANGED <<p_kind, fetch_details, max_concurrent, p_pc, p_attempt, p_failed,
                 p_articles, p_details, p_result>>
  /\ UNCHANGED <<iterVars, hashVars, sinkVars, stockVars, fileVars, unitVars>>

\* asyncio.gather returns (:335) when every task is done; the articles are
\* updated with their details (:339-362) and returned (:377)
Crawl4aiGathered ==
  /\ p_kind = "crawl4ai" /\ p_pc = "gather"
  /\ \A i \in 1..Len(p_articles) : p_task[i] = "done"
  /\ p_articles' = [i \in 1..Len(p_articles) |->
                      UpdateWithDetail(p_articles[i], ZipDetail(p_details, i))]
  /\ p_result' = <<p_articles'>>
  /\ p_pc' = "returned"
  /\ UNCHANGED <<p_kind, fetch_details, max_concurrent, p_attempt, p_failed, p_task,
                 sem_value, p_details>>
  /\ UNCHANGED <<iterVars, hashVars, sinkVars, stockVars, fileVars, unitVars>>

\* MoneyControlScraper.scrape_page: one attempt of fetch_page (:64-82).  A
\* RequestException is retried until the last attempt, after which fetch_page
\* returns None and scrape_page returns [] (:160-161); a fetched page has its
\* articles extracted and returned (:163-182).
RequestsAttempt ==
  /\ p_kind = "requests" /\ p_pc = "start"
  /\ p_attempt < FetchPageRetries
  /\ \E outcome \in {"ok", "RequestException"} :
       IF outcome = "ok"
         THEN \E n \in 0..MaxArticles :
                /\ p_articles' = ExtractedArticles(n)
                /\ p_result' = <<p_articles'>>
                /\ p_pc' = "returned"
                /\ UNCHANGED <<p_attempt, p_failed>>
         ELSE IF p_attempt < FetchPageRetries - 1
                THEN /\ p_attempt' = p_attempt + 1
                     /\ UNCHANGED <<p_pc, p_failed, p_articles, p_result>>
                ELSE /\ p_failed' = TRUE
                     /\ p_result' = << <<>> >>
                     /\ p_pc' = "returned"
                     /\ UNCHANGED <<p_attempt, p_articles>>
  /\ UNCHANGED <<p_kind, fetch_details, max_concurrent, p_task, sem_value, p_details>>
  /\ UNCHANGED <<iterVars, hashVars, sinkVars, stockVars, fileVars, unitVars>>

PageIdle ==
  /\ p_kind = "requests" /\ fetch_details = FALSE /\ max_concurrent = 1
  /\ p_pc = "returned" /\ p_attempt = 0 /\ p_failed = FALSE
  /\ p_articles = <<>>
  /\ p_task = [i \in 1..MaxArticles |-> "none"]
  /\ sem_value = 0
  /\ p_details = [i \in 1..MaxArticles |-> NoDetail]
  /\ p_result = <<>>

(***************************************************************************)
(* The streaming file sinks: BaseScraper.save_to_json_streaming, its twin  *)
(* save_to_json_streaming_async and ScreenerScraper.save_to_json_streaming.*)
(* An item of the input iterator is a single dict or a list of dicts;      *)
(* Record j of item i is <<i, j>>.  The file is the sequence of the        *)
(* strings written to it: a literal, or the JSON text of a value.          *)
(***************************************************************************)
ItemShapes ==
  {[dict |-> TRUE, len |-> 1]} \cup {[dict |-> FALSE, len |-> n] : n \in 0..MaxListLen}

\* the Records item i of the stream holds
ItemRecords(i) == [j \in 1..f_stream[i].len |-> <<i, j>>]

Literal(text) == [kind |-> "literal", text |-> text, nested |-> FALSE, recs |-> <<>>]

\* json.dumps(article, ensure_ascii=False, indent=indent) of one dict, with the
\* indentation added to each line when pretty
JsonOfDict(rec, isPretty) ==
  [kind |-> "json", text |-> IF isPretty THEN "indent=2" ELSE "compact",
   nested |-> FALSE, recs |-> <<rec>>]

\* json.dumps(stock_data, ...) of a list: one JSON array holding its dicts
JsonOfList(recs, isPretty) ==
  [kind |-> "json", text |-> IF isPretty THEN "indent=2" ELSE "compact",
   nested |-> TRUE, recs |-> recs]

OpenBracket(isPretty) == Literal(IF isPretty THEN "[\n" ELSE "[")

Comma(isPretty) == Literal(IF isPretty THEN ",\n" ELSE ",")

CloseBracket(isPretty) == Literal(IF isPretty THEN "\n]" ELSE "]")

\* `if isinstance(batch, dict): batch = [batch]` (base_scraper.py:183-184)
BatchOf(i) == ItemRecords(i)

\* the comma written before every article
NeedsCommaAlways(first) == TRUE

\* an exception of the iterator that is swallowed
IteratorRaisesNever(pos) == FALSE

\* the iterator raises when it is asked for its item number f_raiseAt
IteratorRaises(pos) == f_raiseAt = pos + 1

\* `if not first_article:` (:187)
NeedsComma(first) == ~first

\* `with open(filename, 'w', ...) as f:` and `f.write('[\n' if pretty else '[')`
FileOpen ==
  /\ f_pc = "open"
  /\ \E outcome \in {"ok", "open raises", "write raises"} :
       CASE outcome = "ok" ->
              /\ f_file' = <<OpenBracket(pretty)>>
              /\ f_pc' = "loop"
              /\ UNCHANGED f_error
         [] outcome = "open raises" ->
              /\ f_error' = "open"
              /\ f_pc' = "raised"
              /\ UNCHANGED f_file
         [] outcome = "write raises" ->
              /\ f_error' = "write"
              /\ f_pc' = "raised"
              /\ UNCHANGED f_file
  /\ UNCHANGED <<f_kind, pretty, f_stream, f_raiseAt, f_pos, f_batch, first_article,
                 total_articles>>
  /\ UNCHANGED <<iterVars, hashVars, sinkVars, stockVars, pageVars, unitVars>>

\* `for batch in articles_iterator:` / `async for batch in ...:` asks the
\* iterator for its next item: the iterator raises, or hands out the item
FileNext ==
  /\ f_kind \in {"sync", "async"} /\ f_pc = "loop"
  /\ \/ /\ IteratorRaises(f_pos)
        /\ f_error' = "iterator"
        /\ f_pc' = "raised"
        /\ UNCHANGED <<f_pos, f_batch>>
     \/ /\ ~IteratorRaises(f_pos)
        /\ f_pos < Len(f_stream)
        /\ f_pos' = f_pos + 1
        /\ f_batch' = BatchOf(f_pos + 1)
        /\ f_pc' = IF f_batch' = <<>> THEN "loop" ELSE "batch"
        /\ UNCHANGED f_error
  /\ UNCHANGED <<f_kind, pretty, f_stream, f_raiseAt, first_article, total_articles,
                 f_file>>
  /\ UNCHANGED <<iterVars, hashVars, sinkVars, stockVars, pageVars, unitVars>>

\* one pass of `for article in batch:` (:186-201): the comma, then the article
FileWriteArticle ==
  /\ f_kind \in {"sync", "async"} /\ f_pc = "batch"
  /\ f_batch # <<>>
  /\ LET comma   == IF NeedsComma(first_article) THEN <<Comma(pretty)>> ELSE <<>>
         article == JsonOfDict(Head(f_batch), pretty)
     IN  \E outcome \in {"ok", "comma raises", "article raises"} :
           CASE outcome = "ok" ->
                  /\ f_file' = f_file \o comma \o <<article>>
                  /\ first_article' = FALSE
                  /\ total_articles' = total_articles + 1
                  /\ f_batch' = Tail(f_batch)
                  /\ f_pc' = IF f_batch' = <<>> THEN "loop" ELSE "batch"
                  /\ UNCHANGED f_error
             [] outcome = "comma raises" ->
                  /\ comma # <<>>
                  /\ f_error' = "write"
                  /\ f_pc' = "raised"
                  /\ UNCHANGED <<f_file, first_article, total_articles, f_batch>>
             [] outcome = "article raises" ->
                  /\ f_file' = f_file \o comma
                  /\ first_article' = FALSE
                  /\ f_error' = "write"
                  /\ f_pc' = "raised"
                  /\ UNCHANGED <<total_articles, f_batch>>
  /\ UNCHANGED <<f_kind, pretty, f_stream, f_raiseAt, f_pos>>
  /\ UNCHANGED <<iterVars, hashVars, sinkVars, stockVars, pageVars, unitVars>>

\* ScreenerScraper.save_to_json_streaming, one pass of
\* `async for stock_data in data_async_iterator:` (screener_scraper.py:724-734):
\* the item, whatever it is, is written as one JSON value
ScreenerFileWrite ==
  /\ f_kind = "screener" /\ f_pc = "loop"
  /\ \/ /\ IteratorRaises(f_pos)
        /\ f_error' = "iterator"
        /\ f_pc' = "raised"
        /\ UNCHANGED <<f_pos, f_file, first_article, total_articles>>
     \/ /\ ~IteratorRaises(f_pos)
        /\ f_pos < Len(f_stream)
        /\ f_pos' = f_pos + 1
        /\ LET comma == IF NeedsComma(first_article) THEN <<Comma(TRUE)>> ELSE <<>>
               recs  == ItemRecords(f_pos + 1)
               value == IF f_stream[f_pos + 1].dict THEN JsonOfDict(recs[1], TRUE)
                                                    ELSE JsonOfList(recs, TRUE)
           IN  \E outcome \in {"ok", "comma raises", "value raises"} :
                 CASE outcome = "ok" ->
                        /\ f_file' = f_file \o comma \o <<value>>
                        /\ first_article' = FALSE
                        /\ total_articles' = total_articles + 1
                        /\ UNCHANGED <<f_pc, f_error>>
                   [] outcome = "comma raises" ->
                        /\ comma # <<>>
                        /\ f_error' = "write"
                        /\ f_pc' = "raised"
                        /\ UNCHANGED <<f_file, first_article, total_articles>>
                   [] outcome = "value raises" ->
                        /\ f_file' = f_file \o comma
                        /\ first_article' = FALSE
                        /\ f_error' = "write"
                        /\ f_pc' = "raised"
                        /\ UNCHANGED total_articles
  /\ UNCHANGED <<f_kind, pretty, f_stream, f_raiseAt, f_batch>>
  /\ UNCHANGED <<iterVars, hashVars, sinkVars, stockVars, pageVars, unitVars>>

\* the iterator is exhausted: `f.write('\n]' if pretty else ']')` (:203), and
\* the file is closed
FileClose ==
  /\ f_pc = "loop"
  /\ f_pos = Len(f_stream) /\ ~IteratorRaises(f_pos)
  /\ \E outcome \in {"ok", "write raises"} :
       IF outcome = "ok"
         THEN /\ f_file' = Append(f_file, CloseBracket(pretty))
              /\ f_pc' = "done"
              /\ UNCHANGED f_error
         ELSE /\ f_error' = "write"
              /\ f_pc' = "raised"
              /\ UNCHANGED f_file
  /\ UNCHANGED <<f_kind, pretty, f_stream, f_raiseAt, f_pos, f_batch, first_article,
                 total_articles>>
  /\ UNCHANGED <<iterVars, hashVars, sinkVars, stockVars, pageVars, unitVars>>

FileIdle ==
  /\ f_kind = "sync" /\ pretty = TRUE /\ f_stream = <<>> /\ f_raiseAt = 0
  /\ f_pos = 0 /\ f_batch = <<>> /\ first_article = TRUE /\ total_articles = 0
  /\ f_file = <<>> /\ f_pc = "done" /\ f_error = "none"

(***************************************************************************)
(* ScreenerScraper._extract_table_raw.  The table is given by the texts of *)
(* the cells of its header row and of its body rows, as they stand in the  *)
(* page; a text is a string over the alphabet of the labels.  The text of  *)
(* the value cell in row r and column i is " ri".                          *)
(***************************************************************************)
TableChars == {"A", " ", "+", "%", "/"}

Digits == <<"1", "2", "3", "4">>

HeaderTexts == {<<" ">>, <<"S">>, <<"J">>}

RawCell(r, i) == <<" ", Digits[r], Digits[i]>>

\* element.get_text(strip=True) of a cell holding one text node
GetTextStrip(text) == StrStrip(text)

\* str.replace(c, t): every occurrence of the character c becomes the string t
RECURSIVE StrReplace(_, _, _)
StrReplace(s, c, t) ==
  IF s = <<>> THEN <<>>
  ELSE (IF Head(s) = c THEN t ELSE <<Head(s)>>) \o StrReplace(Tail(s), c, t)

\* re.sub(r'\s+', '_', s)
RECURSIVE SubSpaceRuns(_)
SubSpaceRuns(s) ==
  IF s = <<>> THEN <<>>
  ELSE IF IsSpace(Head(s)) THEN <<"_">> \o SubSpaceRuns(LStrip(Tail(s)))
  ELSE <<Head(s)>> \o SubSpaceRuns(Tail(s))

\* str.strip('_')
RECURSIVE StripUnderscores(_)
StripUnderscores(s) ==
  IF s # <<>> /\ Head(s) = "_" THEN StripUnderscores(Tail(s))
  ELSE IF s # <<>> /\ s[Len(s)] = "_" THEN StripUnderscores(SubSeq(s, 1, Len(s) - 1))
  ELSE s

\* re.sub(r'_+', '_', s)
RECURSIVE SubUnderscoreRuns(_)
SubUnderscoreRuns(s) ==
  IF s = <<>> THEN <<>>
  ELSE IF Head(s) = "_" /\ Len(s) > 1 /\ s[2] = "_" THEN SubUnderscoreRuns(Tail(s))
  ELSE <<Head(s)>> \o SubUnderscoreRuns(Tail(s))

\* `metric_key` of a label (screener_scraper.py:162-168); "percent" stands for
\* the seven letters of the word
MetricKey(metric_label) ==
  LET lower   == StrLower(metric_label)
      plus    == StrReplace(lower, "+", <<>>)
      percent == StrReplace(plus, "%", <<"_", "percent">>)
      slash   == StrReplace(percent, "/", <<"_">>)
      spaces  == SubSpaceRuns(slash)
      runs    == SubUnderscoreRuns(spaces)
  IN  StripUnderscores(runs)

\* d[key] = value on a dict
SetItem(d, key, value) ==
  [x \in (DOMAIN d) \cup {key} |-> IF x = key THEN value ELSE d[x]]

\* `headers[1:] if len(headers) > 1 else []` (:142)
DateHeaders(headers) == IF Len(headers) > 1 THEN Tail(headers) ELSE <<>>

\* `for date in date_headers: if date: result[date] = {}` (:145-147)
InitResult(date_headers) ==
  [date \in {date_headers[i] : i \in 1..Len(date_headers)} \ {<<>>} |-> <<>>]

\* the value cells of a row, the label cell included
ValueCellsWithLabel(cells) == cells

\* `cells[1:]` (:171)
ValueCells(cells) == Tail(cells)

\* `for i, cell in enumerate(cells[1:])` (:171-174), from position i on
RECURSIVE AssignCells(_, _, _, _, _)
AssignCells(result, metric_key, values, date_headers, i) ==
  IF i > Len(values) THEN result
  ELSE AssignCells(
         IF i <= Len(date_headers) /\ date_headers[i] # <<>>
           THEN [result EXCEPT ![date_headers[i]] =
                   SetItem(@, metric_key, GetTextStrip(values[i]))]
           ELSE result,
         metric_key, values, date_headers, i + 1)

\* `for row in rows:` (:153-174), from row r on
RECURSIVE ExtractRows(_, _, _, _)
ExtractRows(result, rows, date_headers, r) ==
  IF r > Len(rows) THEN result
  ELSE LET cells == rows[r] IN
       ExtractRows(
         IF cells = <<>> THEN result
         ELSE LET metric_label == GetTextStrip(cells[1]) IN
              IF metric_label = <<>> THEN result
              ELSE AssignCells(result, MetricKey(metric_label), ValueCells(cells),
                               date_headers, 1),
         rows, date_headers, r + 1)

extract_table_raw(header_row, rows) ==
  LET headers      == [i \in 1..Len(header_row) |-> GetTextStrip(header_row[i])]
      date_headers == DateHeaders(headers)
  IN  ExtractRows(InitResult(date_headers), rows, date_headers, 1)

\* the call of _extract_table_raw on the table
ExtractTableRaw ==
  /\ t_pc = "call"
  /\ t_result' = extract_table_raw(t_headers, t_rows)
  /\ t_pc' = "returned"
  /\ UNCHANGED <<t_headers, t_rows>>
  /\ UNCHANGED <<iterVars, hashVars, sinkVars, stockVars, pageVars, fileVars>>
  /\ UNCHANGED <<retryVars, searchVars, browserVars>>

TableIdle ==
  /\ t_headers = <<>> /\ t_rows = <<>> /\ t_pc = "returned" /\ t_result = <<>>

(***************************************************************************)
(* MoneyControlScraper.fetch_page (moneycontrol_scraper.py).  The log      *)
(* holds a "get" event for each session.get, with the attempt's number and *)
(* whether it succeeded, and a "sleep" event for each time.sleep, with the *)
(* seconds waited.  Values are tagged with their type.                     *)
(***************************************************************************)
\* a wait after every failed attempt
ShouldWaitAlways(attempt, retries) == TRUE

\* `if attempt < retries - 1:` (:75)
ShouldWait(attempt, retries) == attempt < retries - 1

\* `wait_time = 2 ** attempt` (:76)
WaitTime(attempt) == 2 ^ attempt

NoneValue == [type |-> "NoneType"]

\* BeautifulSoup(response.content, 'lxml') of page p (:68)
Soup(p) == [type |-> "BeautifulSoup", page |-> p]

\* one pass of `for attempt in range(retries):` up to the return or the handler
FetchPageAttempt ==
  /\ r_kind = "fetch_page"
  /\ r_pc = "loop"
  /\ r_attempt < r_retries
  /\ \E ok \in BOOLEAN :
       /\ r_log' = Append(r_log, [kind |-> "get", n |-> r_attempt, ok |-> ok])
       /\ IF ok
            THEN /\ r_result' = <<Soup(r_page_number)>>
                 /\ r_pc' = "returned"
            ELSE \* except requests.RequestException (:73)
                 /\ r_pc' = "except"
                 /\ UNCHANGED r_result
  /\ UNCHANGED <<r_kind, r_page_number, r_retries, r_attempt>>
  /\ UNCHANGED <<iterVars, hashVars, sinkVars, stockVars, pageVars, fileVars>>
  /\ UNCHANGED <<tableVars, searchVars, browserVars>>

\* the handler: wait and go on to the next attempt, or return None (:75-81)
FetchPageExcept ==
  /\ r_kind = "fetch_page"
  /\ r_pc = "except"
  /\ IF ShouldWait(r_attempt, r_retries)
       THEN /\ r_log' = Append(r_log, [kind |-> "sleep", n |-> WaitTime(r_attempt),
                                       ok |-> TRUE])
            /\ r_attempt' = r_attempt + 1
            /\ r_pc' = "loop"
            /\ UNCHANGED r_result
       ELSE /\ r_result' = <<NoneValue>>
            /\ r_pc' = "returned"
            /\ UNCHANGED <<r_log, r_attempt>>
  /\ UNCHANGED <<r_kind, r_page_number, r_retries>>
  /\ UNCHANGED <<iterVars, hashVars, sinkVars, stockVars, pageVars, fileVars>>
  /\ UNCHANGED <<tableVars, searchVars, browserVars>>

\* range(retries) is exhausted: the function ends without a return statement
FetchPageExhausted ==
  /\ r_kind = "fetch_page"
  /\ r_pc = "loop"
  /\ r_attempt >= r_retries
  /\ r_result' = <<NoneValue>>
  /\ r_pc' = "returned"
  /\ UNCHANGED <<r_kind, r_page_number, r_retries, r_attempt, r_log>>
  /\ UNCHANGED <<iterVars, hashVars, sinkVars, stockVars, pageVars, fileVars>>
  /\ UNCHANGED <<tableVars, searchVars, browserVars>>

(***************************************************************************)
(* MoneyControlCrawl4AIScraper.fetch_article_details (crawl4ai_scraper.py) *)
(***************************************************************************)
\* the values the extraction may give a field: nothing or some text
FieldTexts == {"", "text"}

DictOf(date, author, full_content) ==
  [type |-> "dict",
   items |-> [date |-> date, author |-> author, full_content |-> full_content]]

\* {'date': '', 'author': '', 'full_content': ''} (:105, :190, :197)
EmptyDetails == DictOf("", "", "")

\* one pass of `for attempt in range(retries):` (:86-183) up to the return or
\* the failure path: crawler.arun returns a page that is parsed and returned,
\* or returns an unsuccessful result, or it or the parsing raises
FetchDetailsAttempt ==
  /\ r_kind = "fetch_article_details"
  /\ r_pc = "loop"
  /\ r_attempt < r_retries
  /\ \E outcome \in {"page", "unsuccessful", "TimeoutError", "Exception"} :
       /\ r_log' = Append(r_log, [kind |-> "get", n |-> r_attempt,
                                  ok |-> outcome = "page"])
       /\ IF outcome = "page"
            THEN /\ \E date, author, full_content \in FieldTexts :
                      r_result' = <<DictOf(date, author, full_content)>>
                 /\ r_pc' = "returned"
            ELSE /\ r_pc' = "except"
                 /\ UNCHANGED r_result
  /\ UNCHANGED <<r_kind, r_page_number, r_retries, r_attempt>>
  /\ UNCHANGED <<iterVars, hashVars, sinkVars, stockVars, pageVars, fileVars>>
  /\ UNCHANGED <<tableVars, searchVars, browserVars>>

\* the three failure paths (:99-105, :185-190, :192-197) do the same: wait and
\* go on to the next attempt, or return the empty details
FetchDetailsExcept ==
  /\ r_kind = "fetch_article_details"
  /\ r_pc = "except"
  /\ IF ShouldWait(r_attempt, r_retries)
       THEN /\ r_log' = Append(r_log, [kind |-> "sleep", n |-> WaitTime(r_attempt),
                                       ok |-> TRUE])
            /\ r_attempt' = r_attempt + 1
            /\ r_pc' = "loop"
            /\ UNCHANGED r_result
       ELSE /\ r_result' = <<EmptyDetails>>
            /\ r_pc' = "returned"
            /\ UNCHANGED <<r_log, r_attempt>>
  /\ UNCHANGED <<r_kind, r_page_number, r_retries>>
  /\ UNCHANGED <<iterVars, hashVars, sinkVars, stockVars, pageVars, fileVars>>
  /\ UNCHANGED <<tableVars, searchVars, browserVars>>

\* range(retries) is exhausted: the coroutine ends without a return statement
FetchDetailsExhausted ==
  /\ r_kind = "fetch_article_details"
  /\ r_pc = "loop"
  /\ r_attempt >= r_retries
  /\ r_result' = <<NoneValue>>
  /\ r_pc' = "returned"
  /\ UNCHANGED <<r_kind, r_page_number, r_retries, r_attempt, r_log>>
  /\ UNCHANGED <<iterVars, hashVars, sinkVars, stockVars, pageVars, fileVars>>
  /\ UNCHANGED <<tableVars, searchVars, browserVars>>

RetryIdle ==
  /\ r_kind = "fetch_page" /\ r_page_number = 1 /\ r_retries = 0 /\ r_attempt = 0 /\ r_pc = "returned"
  /\ r_log = <<>> /\ r_result = <<NoneValue>>

(***************************************************************************)
(* EnhancedMoneyControlScraper._binary_search_last_page                    *)
(* (moneycontrol_scraper_auto_pages.py).  A page has articles exactly when *)
(* its number is at most lastWithArticles.                                 *)
(***************************************************************************)
\* `mid = (left + right) // 2` (:121)
Mid(l, r) == (l + r) \div 2

\* a search that goes on two pages above a page with articles
SearchHigherSkipping(mid) == mid + 2

\* `left = mid + 1` (:138)
SearchHigher(mid) == mid + 1

\* `right = mid - 1` (:142 and :146)
SearchLower(mid) == mid - 1

\* one pass of `while left <= right:` (:120-147)
BinarySearchProbe ==
  /\ bs_pc = "loop"
  /\ left <= right
  /\ LET mid == Mid(left, right) IN
     /\ probes' = Append(probes, mid)
     /\ IF mid <= lastWithArticles
          THEN \* result.success and articles
               /\ last_valid' = mid
               /\ left' = SearchHigher(mid)
               /\ UNCHANGED right
          ELSE \* result.success without articles, or not result.success
               /\ right' = SearchLower(mid)
               /\ UNCHANGED <<left, last_valid>>
  /\ UNCHANGED <<max_pages, lastWithArticles, bs_pc>>
  /\ UNCHANGED <<iterVars, hashVars, sinkVars, stockVars, pageVars, fileVars>>
  /\ UNCHANGED <<tableVars, retryVars, browserVars>>

\* the loop is over: `return last_valid` (:149)
BinarySearchReturn ==
  /\ bs_pc = "loop"
  /\ left > right
  /\ bs_pc' = "returned"
  /\ UNCHANGED <<max_pages, lastWithArticles, left, right, last_valid, probes>>
  /\ UNCHANGED <<iterVars, hashVars, sinkVars, stockVars, pageVars, fileVars>>
  /\ UNCHANGED <<tableVars, retryVars, browserVars>>

SearchIdle ==
  /\ max_pages = 0 /\ lastWithArticles = 0 /\ left = 1 /\ right = 0
  /\ last_valid = 1 /\ probes = <<>> /\ bs_pc = "returned"

(***************************************************************************)
(* The browser of MoneyControlSeleniumScraper and of                       *)
(* MoneyControlPlaywrightScraper, over the calls made on one scraper       *)
(* object.  self.driver (self.browser) is None, a running browser or a     *)
(* browser that was quit.  The log holds an event for each call of a       *)
(* public method, each browser start, each page load and each quit, with   *)
(* the state the browser was in.                                           *)
(***************************************************************************)
Event(name, state) == [event |-> name, on |-> state]

\* close_driver (selenium :74-78), close (playwright :63-69): a browser that
\* is set is quit and stays referenced by self.driver / self.browser
AfterClose(d) == IF d = "None" THEN "None" ELSE "closed"

\* scrape_page (selenium :80-130, playwright :126-194) on the browser state d:
\* `if not self.driver: self.initialize_driver()` starts the browser or raises
\* (outside the try); the page is then loaded on the browser, and what the
\* load raises is caught
ScrapePageOutcomes(d) ==
  IF d = "None"
    THEN { [driver |-> "open", raised |-> FALSE,
            events |-> <<Event("start", d), Event("load", "open")>>],
           [driver |-> "None", raised |-> TRUE, events |-> <<>>] }
    ELSE { [driver |-> d, raised |-> FALSE, events |-> <<Event("load", d)>>] }

\* scraper.scrape_page(page), called on the object directly
CallScrapePage ==
  /\ w_pc = "idle"
  /\ w_calls < MaxCalls
  /\ w_calls' = w_calls + 1
  /\ \E o \in ScrapePageOutcomes(driver) :
       /\ driver' = o.driver
       /\ w_log' = Append(w_log, Event("scrape_page", driver)) \o o.events
  /\ UNCHANGED <<w_kind, w_pc, w_page, w_num_pages>>
  /\ UNCHANGED <<iterVars, hashVars, sinkVars, stockVars, pageVars, fileVars>>
  /\ UNCHANGED <<tableVars, retryVars, searchVars>>

\* scraper.scrape_multiple_pages(num_pages) is entered
CallScrapeMultiplePages ==
  /\ w_pc = "idle"
  /\ w_calls < MaxCalls
  /\ w_calls' = w_calls + 1
  /\ \E n \in 0..MaxBrowserPages : w_num_pages' = n
  /\ w_page' = 1
  /\ w_pc' = "loop"
  /\ w_log' = Append(w_log, Event("scrape_multiple_pages", driver))
  /\ UNCHANGED <<w_kind, driver>>
  /\ UNCHANGED <<iterVars, hashVars, sinkVars, stockVars, pageVars, fileVars>>
  /\ UNCHANGED <<tableVars, retryVars, searchVars>>

\* one pass of `for page in range(1, num_pages + 1):` (selenium :199-206,
\* playwright :210-218); an exception of scrape_page leaves the loop
MultiplePagesScrape ==
  /\ w_pc = "loop"
  /\ w_page <= w_num_pages
  /\ \E o \in ScrapePageOutcomes(driver) :
       /\ driver' = o.driver
       /\ w_log' = w_log \o o.events
       /\ IF o.raised
            THEN w_pc' = "finally" /\ UNCHANGED w_page
            ELSE w_pc' = "loop" /\ w_page' = w_page + 1
  /\ UNCHANGED <<w_kind, w_num_pages, w_calls>>
  /\ UNCHANGED <<iterVars, hashVars, sinkVars, stockVars, pageVars, fileVars>>
  /\ UNCHANGED <<tableVars, retryVars, searchVars>>

\* the loop is over
MultiplePagesEnd ==
  /\ w_pc = "loop"
  /\ w_page > w_num_pages
  /\ w_pc' = "finally"
  /\ UNCHANGED <<w_kind, driver, w_page, w_num_pages, w_calls, w_log>>
  /\ UNCHANGED <<iterVars, hashVars, sinkVars, stockVars, pageVars, fileVars>>
  /\ UNCHANGED <<tableVars, retryVars, searchVars>>

\* `finally: self.close_driver()` (selenium :210-211), `await self.close()`
\* (playwright :222-223), and the call ends
MultiplePagesFinally ==
  /\ w_pc = "finally"
  /\ w_log' = IF driver = "None" THEN w_log ELSE Append(w_log, Event("quit", driver))
  /\ driver' = AfterClose(driver)
  /\ w_pc' = "idle"
  /\ UNCHANGED <<w_kind, w_page, w_num_pages, w_calls>>
  /\ UNCHANGED <<iterVars, hashVars, sinkVars, stockVars, pageVars, fileVars>>
  /\ UNCHANGED <<tableVars, retryVars, searchVars>>

BrowserIdle ==
  /\ w_kind = "selenium" /\ driver = "None" /\ w_pc = "idle" /\ w_page = 1
  /\ w_num_pages = 0 /\ w_calls = MaxCalls /\ w_log = <<>>

UnitIdle == TableIdle /\ RetryIdle /\ SearchIdle /\ BrowserIdle

\* the strings of n characters of the labels
RECURSIVE LabelsOfLen(_)
LabelsOfLen(n) ==
  IF n = 0 THEN {<<>>}
  ELSE {<<c>> \o s : c \in TableChars, s \in LabelsOfLen(n - 1)}

\* the tables of k body rows from row r on, whose labels hold at most `budget`
\* characters together and whose rows have up to MaxCols value cells
RECURSIVE RowsOf(_, _, _)
RowsOf(r, k, budget) ==
  IF k = 0 THEN {<<>>}
  ELSE UNION {{<<<<label>> \o [i \in 1..n |-> RawCell(r, i)]>> \o rest :
                 rest \in RowsOf(r + 1, k - 1, budget - Len(label))} :
               label \in UNION {LabelsOfLen(l) : l \in 0..budget}, n \in 0..MaxCols}

(***************************************************************************)
(* The pagination specification: both iterators are driven over the same   *)
(* scenario, the per-page run first and the batched run after it.          *)
(***************************************************************************)
InitIter ==
  /\ num_pages \in 0..MaxPages
  /\ batch_size \in 0..MaxBatch
  /\ pageLen \in [1..MaxPages -> 0..MaxRecs]
  /\ \A p \in 1..MaxPages : p > num_pages => pageLen[p] = 0
  /\ failPage \in 0..num_pages
  /\ g_pc = "loop" /\ g_page = 1 /\ g_out = <<>> /\ g_delays = 0
  /\ g_calls = <<>> /\ g_inflight = 0
  /\ b_pc = "loop" /\ b_page = 1 /\ batch_articles = <<>>
  /\ pages_in_current_batch = 0 /\ b_out = <<>> /\ b_delays = 0
  /\ b_calls = <<>> /\ b_inflight = 0
  /\ HashIdle
  /\ SinkIdle
  /\ StockIdle
  /\ PageIdle
  /\ FileIdle
  /\ UnitIdle

Next ==
  \/ GenCall
  \/ GenFetch
  \/ GenResume
  \/ GenDelay
  \/ GenExhausted
  \/ BatCall
  \/ BatFetch
  \/ BatResume
  \/ BatDelay
  \/ BatExhausted

Spec == InitIter /\ [][Next]_vars

(***************************************************************************)
(* The pagination specification with progress.  num_pages may be negative. *)
(* The event loop runs a coroutine that is ready, a sleep ends, a call of  *)
(* scrape_page ends (by returning or raising) and the consumer's           *)
(* `async for` asks for the next output: each step is weakly fair.         *)
(***************************************************************************)
InitIterLive ==
  /\ num_pages \in -1..MaxPages
  /\ batch_size \in 0..MaxBatch
  /\ pageLen \in [1..MaxPages -> 0..MaxRecs]
  /\ \A p \in 1..MaxPages : p > num_pages => pageLen[p] = 0
  /\ failPage \in 0..(IF num_pages > 0 THEN num_pages ELSE 0)
  /\ g_pc = "loop" /\ g_page = 1 /\ g_out = <<>> /\ g_delays = 0
  /\ g_calls = <<>> /\ g_inflight = 0
  /\ b_pc = "loop" /\ b_page = 1 /\ batch_articles = <<>>
  /\ pages_in_current_batch = 0 /\ b_out = <<>> /\ b_delays = 0
  /\ b_calls = <<>> /\ b_inflight = 0
  /\ HashIdle
  /\ SinkIdle
  /\ StockIdle
  /\ PageIdle
  /\ FileIdle
  /\ UnitIdle

Fairness ==
  /\ WF_vars(GenCall) /\ WF_vars(GenFetch) /\ WF_vars(GenResume)
  /\ WF_vars(GenDelay) /\ WF_vars(GenExhausted)
  /\ WF_vars(BatCall) /\ WF_vars(BatFetch) /\ WF_vars(BatResume)
  /\ WF_vars(BatDelay) /\ WF_vars(BatExhausted)

SpecLive == InitIterLive /\ [][Next]_vars /\ Fairness

(***************************************************************************)
(* The table specification: one call of _extract_table_raw on a bounded    *)
(* table: no header row or one of up to MaxCols date columns after the     *)
(* metric column, and up to MaxRows body rows.                             *)
(***************************************************************************)
InitTable ==
  /\ t_headers \in {<<>>} \cup
        {<<<<"M">>>> \o hs : hs \in SeqsUpTo(HeaderTexts, MaxCols)}
  /\ t_rows \in UNION {RowsOf(1, k, MaxLabelChars) : k \in 0..MaxRows}
  /\ t_pc = "call" /\ t_result = <<>>
  /\ IterIdle
  /\ HashIdle
  /\ SinkIdle
  /\ StockIdle
  /\ PageIdle
  /\ FileIdle
  /\ RetryIdle
  /\ SearchIdle
  /\ BrowserIdle

NextTable == ExtractTableRaw

SpecTable == InitTable /\ [][NextTable]_vars

(***************************************************************************)
(* The retry specification: one call of fetch_page, each attempt of which  *)
(* may succeed or fail with a RequestException, or one call of             *)
(* fetch_article_details.                                                  *)
(***************************************************************************)
InitRetry ==
  /\ r_kind \in {"fetch_page", "fetch_article_details"}
  /\ r_page_number \in 1..MaxPages
  /\ r_retries \in -1..MaxRetries
  /\ r_attempt = 0 /\ r_pc = "loop" /\ r_log = <<>> /\ r_result = <<>>
  /\ IterIdle
  /\ HashIdle
  /\ SinkIdle
  /\ StockIdle
  /\ PageIdle
  /\ FileIdle
  /\ TableIdle
  /\ SearchIdle
  /\ BrowserIdle

NextRetry ==
  \/ FetchPageAttempt
  \/ FetchPageExcept
  \/ FetchPageExhausted
  \/ FetchDetailsAttempt
  \/ FetchDetailsExcept
  \/ FetchDetailsExhausted

SpecRetry == InitRetry /\ [][NextRetry]_vars

(***************************************************************************)
(* The search specification: one call of _binary_search_last_page.  Each   *)
(* crawler.arun it awaits ends, so a pass of the loop that can be made is  *)
(* made.                                                                   *)
(***************************************************************************)
InitSearch ==
  /\ max_pages \in 0..MaxSearchPages
  /\ lastWithArticles \in 0..max_pages
  /\ left = 1 /\ right = max_pages /\ last_valid = 1
  /\ probes = <<>> /\ bs_pc = "loop"
  /\ IterIdle
  /\ HashIdle
  /\ SinkIdle
  /\ StockIdle
  /\ PageIdle
  /\ FileIdle
  /\ TableIdle
  /\ RetryIdle
  /\ BrowserIdle

NextSearch ==
  \/ BinarySearchProbe
  \/ BinarySearchReturn

SpecSearch == InitSearch /\ [][NextSearch]_vars /\ WF_vars(NextSearch)

(***************************************************************************)
(* The browser specification: up to MaxCalls calls of scrape_page and      *)
(* scrape_multiple_pages, one after the other, on one scraper object.      *)
(***************************************************************************)
InitBrowser ==
  /\ w_kind \in {"selenium", "playwright"}
  /\ driver = "None" /\ w_pc = "idle" /\ w_page = 1 /\ w_num_pages = 0
  /\ w_calls = 0 /\ w_log = <<>>
  /\ IterIdle
  /\ HashIdle
  /\ SinkIdle
  /\ StockIdle
  /\ PageIdle
  /\ FileIdle
  /\ TableIdle
  /\ RetryIdle
  /\ SearchIdle

NextBrowser ==
  \/ CallScrapePage
  \/ CallScrapeMultiplePages
  \/ MultiplePagesScrape
  \/ MultiplePagesEnd
  \/ MultiplePagesFinally

SpecBrowser == InitBrowser /\ [][NextBrowser]_vars

(***************************************************************************)
(* The fingerprint specification: two calls of one generator, on arguments *)
(* drawn from the bounded strings, with the calendar day free to advance.  *)
(***************************************************************************)
InitHash ==
  /\ h_kind \in {"article", "indicator", "stock"}
  /\ h_in1 \in ListsOf(Arity(h_kind), MaxChars)
  /\ h_in2 \in ListsOf(Arity(h_kind), MaxChars - TotalLen(h_in1))
  /\ today = 1
  /\ h_pc = 1 /\ h_day1 = 0 /\ h_day2 = 0 /\ h_out1 = <<>> /\ h_out2 = <<>>
  /\ IterIdle
  /\ SinkIdle
  /\ StockIdle
  /\ PageIdle
  /\ FileIdle
  /\ UnitIdle

NextHash ==
  \/ GenerateArticleHash
  \/ GenerateIndicatorHash
  \/ GenerateStockHash
  \/ DayPasses

SpecHash == InitHash /\ [][NextHash]_vars

(***************************************************************************)
(* The sink specification: one run of one sink over a bounded stream.      *)
(***************************************************************************)
InitSink ==
  /\ s_kind \in {"upload_streaming", "dual_output", "upload_articles"}
  /\ stream \in SeqsUpTo(Records, MaxStream)
  /\ mongo_batch_size \in 1..MaxMongoBatch
  /\ s_upsert \in IF s_kind = "dual_output" THEN {TRUE} ELSE BOOLEAN
  /\ collection \in {<<>>, <<[hash |-> "h1", val |-> "v0"]>>}
  /\ s_pos = 0 /\ operations = <<>>
  /\ stats = [inserted |-> 0, updated |-> 0, skipped |-> 0, failed |-> 0]
  /\ s_pc = "start" /\ s_writes = <<>>
  /\ unique_index = FALSE /\ json_file = <<>>
  /\ IterIdle
  /\ HashIdle
  /\ StockIdle
  /\ PageIdle
  /\ FileIdle
  /\ UnitIdle

NextSink ==
  \/ CreateIndexes
  \/ DualOutputOpen
  \/ UploadStreamingConsume
  \/ UploadStreamingFinish
  \/ DualOutputConsume
  \/ DualOutputFinish
  \/ UploadArticles

SpecSink == InitSink /\ [][NextSink]_vars

(***************************************************************************)
(* The cancellation specification: one run of a sink, which an external    *)
(* cancel may end while it waits for the next Record.                      *)
(***************************************************************************)
NextCancel ==
  \/ NextSink
  \/ SinkCancel

SpecCancel == InitSink /\ [][NextCancel]_vars

(***************************************************************************)
(* The stock-loop specification: one run of one of the three loops over a  *)
(* list of symbols, some of which scrape_stock fails on.                   *)
(***************************************************************************)
InitStocks ==
  /\ k_method \in {"generator", "batched", "standard"}
  /\ \E n \in 0..MaxSymbols : symbols = [i \in 1..n |-> i]
  /\ stockOk \in [1..MaxSymbols -> BOOLEAN]
  /\ \A i \in 1..MaxSymbols : i > Len(symbols) => stockOk[i]
  /\ k_batch_size \in IF k_method = "batched" THEN 0..MaxStockBatch ELSE {1}
  /\ k_i = 1 /\ k_pc = "loop"
  /\ batch_data = <<>> /\ k_out = <<>> /\ all_stocks = <<>> /\ k_log = <<>>
  /\ IterIdle
  /\ HashIdle
  /\ SinkIdle
  /\ PageIdle
  /\ FileIdle
  /\ UnitIdle

NextStocks ==
  \/ StocksGenFetch
  \/ StocksGenResume
  \/ StocksGenDelay
  \/ StocksGenExhausted
  \/ StocksBatFetch
  \/ StocksBatResume
  \/ StocksBatDelay
  \/ StocksBatExhausted
  \/ StandardFetch
  \/ StandardSleep
  \/ StandardExhausted

SpecStocks == InitStocks /\ [][NextStocks]_vars

(***************************************************************************)
(* The page specification: one call of scrape_page.                        *)
(***************************************************************************)
InitPage ==
  /\ p_kind \in {"requests", "crawl4ai"}
  /\ fetch_details \in IF p_kind = "crawl4ai" THEN BOOLEAN ELSE {FALSE}
  /\ max_concurrent \in IF p_kind = "crawl4ai" THEN -1..MaxConcurrent ELSE {1}
  /\ p_pc = "start" /\ p_attempt = 0 /\ p_failed = FALSE
  /\ p_articles = <<>>
  /\ p_task = [i \in 1..MaxArticles |-> "none"]
  /\ sem_value = 0
  /\ p_details = [i \in 1..MaxArticles |-> NoDetail]
  /\ p_result = <<>>
  /\ IterIdle
  /\ HashIdle
  /\ SinkIdle
  /\ StockIdle
  /\ FileIdle
  /\ UnitIdle

NextPageStep ==
  \/ Crawl4aiCrawl
  \/ Crawl4aiBranch
  \/ DetailAcquire
  \/ DetailFetched
  \/ DetailRelease
  \/ Crawl4aiGathered
  \/ RequestsAttempt

SpecPage == InitPage /\ [][NextPageStep]_vars

(***************************************************************************)
(* The file-sink specification: one run of one streaming save over a       *)
(* bounded stream of items, with the iterator or a write free to raise.    *)
(***************************************************************************)
InitFile ==
  /\ f_kind \in {"sync", "async", "screener"}
  /\ pretty \in IF f_kind = "screener" THEN {TRUE} ELSE BOOLEAN
  /\ f_stream \in SeqsUpTo(ItemShapes, MaxItems)
  /\ f_raiseAt \in 0..(Len(f_stream) + 1)
  /\ f_pos = 0 /\ f_batch = <<>> /\ first_article = TRUE /\ total_articles = 0
  /\ f_file = <<>> /\ f_pc = "open" /\ f_error = "none"
  /\ IterIdle
  /\ HashIdle
  /\ SinkIdle
  /\ StockIdle
  /\ PageIdle
  /\ UnitIdle

NextFile ==
  \/ FileOpen
  \/ FileNext
  \/ FileWriteArticle
  \/ ScreenerFileWrite
  \/ FileClose

SpecFile == InitFile /\ [][NextFile]_vars

(***************************************************************************)
(* The buffer specification: one run of the pagination iterators or one    *)
(* run of a stock loop.                                                    *)
(***************************************************************************)
InitBuffers == InitIter \/ InitStocks

NextBuffers == Next \/ NextStocks

SpecBuffers == InitBuffers /\ [][NextBuffers]_vars

(***************************************************************************)
(* Properties of the pagination iterators.                                 *)
(***************************************************************************)
\* the non-empty pages among 1..n, in increasing order
NonEmptyPages(n) ==
  SelectSeq([p \in 1..n |-> p], LAMBDA p : pageLen[p] > 0)

\* what a per-page consumer must have received once pages 1..n were fetched
PerPageOutputs(n) ==
  LET nep == NonEmptyPages(n) IN [i \in 1..Len(nep) |-> ScrapePage(nep[i])]

\* the pages whose Records a yielded batch holds
PagesOf(batch) == {batch[i][1] : i \in 1..Len(batch)}

NoFetchRaises == failPage = 0

AllPagesNonEmpty == \A p \in 1..num_pages : pageLen[p] > 0

\* C1: if scrape_page raises on page k, both iterators stop having yielded the
\* Records of every non-empty page 1..k-1 and nothing of page k or later.
C1_RaiseKeepsEarlierPages ==
  /\ g_pc = "raised" =>
       /\ g_page = failPage
       /\ g_out = PerPageOutputs(failPage - 1)
  /\ b_pc = "raised" =>
       /\ b_page = failPage
       /\ Concat(b_out) = Concat(PerPageOutputs(failPage - 1))

\* C7 as stated: with no fetch raising, the generator yields exactly num_pages
\* outputs, the i-th being the complete list of page i.
C7_ExactlyNOutputs ==
  (g_pc = "done" /\ NoFetchRaises) =>
     /\ Len(g_out) = num_pages
     /\ \A i \in 1..Len(g_out) : g_out[i] = ScrapePage(i)

\* C7 amended: with no fetch raising, the generator yields exactly one output per
\* non-empty page (so num_pages outputs when no page is empty), each the complete
\* list of its page, in increasing page order; an empty page yields nothing.
C7_OneOutputPerNonEmptyPage ==
  (g_pc = "done" /\ NoFetchRaises) =>
     /\ g_out = PerPageOutputs(num_pages)
     /\ AllPagesNonEmpty => Len(g_out) = num_pages

C7_Witness ==
  /\ g_pc = "done" /\ NoFetchRaises
  /\ num_pages = 4
  /\ pageLen[2] = 0 /\ pageLen[1] > 0 /\ pageLen[3] > 0
  /\ Len(g_out) = 3

\* C8: batched iteration over N pages with batch size B >= 1 yields exactly
\* ceil(N/B) batches when every page is non-empty, and never more than that.
C8_BatchCount ==
  (b_pc = "done" /\ NoFetchRaises /\ batch_size >= 1) =>
     /\ Len(b_out) <= CeilDiv(num_pages, batch_size)
     /\ AllPagesNonEmpty => Len(b_out) = CeilDiv(num_pages, batch_size)

C8_Witness ==
  /\ b_pc = "done" /\ NoFetchRaises
  /\ num_pages = 5 /\ batch_size = 2 /\ AllPagesNonEmpty
  /\ Len(b_out) = 3

\* C9: with no fetch raising and any batch size, the concatenation of the batches
\* equals the concatenation of the per-page outputs: nothing lost, duplicated or
\* reordered.
C9_BatchedEqualsPerPage ==
  (g_pc = "done" /\ b_pc = "done" /\ NoFetchRaises) =>
     Concat(b_out) = Concat(g_out)

C9_Witness ==
  /\ g_pc = "done" /\ b_pc = "done" /\ NoFetchRaises
  /\ num_pages = 5 /\ batch_size = 2
  /\ Len(b_out) = 2 /\ Len(g_out) = 4
  /\ Concat(b_out) # <<>>

\* C10: an empty page neither counts toward batch_size nor triggers a flush:
\* every yielded batch but the one flushed at the last page holds the Records of
\* exactly batch_size non-empty pages, the next ones in page order.
C10_EmptyPagesDoNotCount ==
  batch_size >= 1 =>
    LET nep == NonEmptyPages(num_pages) IN
    /\ \A i \in 1..Len(b_out) :
         \/ /\ Cardinality(PagesOf(b_out[i])) = batch_size
            /\ b_out[i] = Concat([j \in 1..batch_size |->
                                    ScrapePage(nep[(i - 1) * batch_size + j])])
         \/ /\ i = Len(b_out)
            /\ b_page >= num_pages
            /\ Cardinality(PagesOf(b_out[i])) < batch_size
    /\ (b_pc = "yield" /\ pageLen[b_page] = 0) => b_page = num_pages

C10_Witness ==
  /\ b_pc = "done" /\ NoFetchRaises
  /\ num_pages = 5 /\ batch_size = 2
  /\ pageLen[3] = 0
  /\ Len(b_out) = 2
  /\ PagesOf(b_out[1]) = {1, 2}
  /\ PagesOf(b_out[2]) = {4, 5}

(***************************************************************************)
(* Properties of the fingerprint generators.                               *)
(***************************************************************************)
\* the normalization of a field list: every field lower-cased and stripped
NormalizedFields(list) == [i \in 1..Len(list) |-> StrStrip(StrLower(list[i]))]

ContainsDelimiter(list) ==
  \E i \in 1..Len(list) : \E j \in 1..Len(list[i]) : list[i][j] = "|"

BothCallsMade == h_pc = 3

\* C4: every fingerprint generator is a function of its arguments alone: two
\* calls with identical arguments return the identical fingerprint whatever the
\* calendar days on which they are made.
C4_SameInputsSameFingerprint ==
  (BothCallsMade /\ h_in1 = h_in2) => h_out1 = h_out2

\* C5 as stated: field lists that differ after normalization have different
\* combined strings and fingerprints, also when a field contains '|'.
C5_DifferentFieldsDifferentFingerprint ==
  (BothCallsMade /\ h_kind \in {"article", "indicator"}
     /\ NormalizedFields(h_in1) # NormalizedFields(h_in2))
  => h_out1 # h_out2

\* C5 amended: field lists none of whose fields contains '|' and that differ after
\* normalization have different combined strings, hence different fingerprints.
C5_DifferentFieldsWithoutDelimiter ==
  (BothCallsMade /\ h_kind \in {"article", "indicator"}
     /\ ~ContainsDelimiter(h_in1) /\ ~ContainsDelimiter(h_in2)
     /\ NormalizedFields(h_in1) # NormalizedFields(h_in2))
  => /\ h_out1 # h_out2
     /\ h_out1[1].sha256_base64_of # h_out2[1].sha256_base64_of

C5_Witness ==
  /\ BothCallsMade /\ h_kind = "article"
  /\ h_in1 = << <<"a">>, <<>> >>
  /\ h_in2 = << <<>>, <<"a">> >>
  /\ h_out1 # h_out2

\* C6: field lists that differ only in letter case or in leading/trailing
\* whitespace of their fields get the same fingerprint from every generator (the
\* two calls being made on the same day).
C6_CaseAndWhitespaceInsensitive ==
  (BothCallsMade /\ h_day1 = h_day2
     /\ NormalizedFields(h_in1) = NormalizedFields(h_in2))
  => h_out1 = h_out2

(***************************************************************************)
(* Properties of the document-store sinks.                                 *)
(***************************************************************************)
SinkEnded == s_pc \in {"returned", "raised"}

FailedWrites == {i \in 1..Len(s_writes) : s_writes[i].error # "none"}

RECURSIVE SumOpsOf(_)
SumOpsOf(S) ==
  IF S = {} THEN 0
  ELSE LET i == CHOOSE x \in S : TRUE IN Len(s_writes[i].ops) + SumOpsOf(S \ {i})

\* C2: when the bulk submission of one batch fails (with the BulkWriteError both
\* sinks catch), upload_streaming and the dual-output processor record the failure
\* for that batch, go on to consume the rest of the stream and submit every
\* following batch.
C2_SinkContinuesAfterFailedBatch ==
  (/\ s_kind \in {"upload_streaming", "dual_output"}
   /\ SinkEnded
   /\ FailedWrites # {}
   /\ \A i \in FailedWrites : s_writes[i].error = "BulkWriteError")
  => /\ s_pos = Len(stream)
     /\ Concat([i \in 1..Len(s_writes) |-> s_writes[i].ops]) = stream
     /\ stats.failed = SumOpsOf(FailedWrites)

\* C3: when the sink upserts a Record and later a second Record with the same hash
\* and different other fields, in different bulk submissions or in the same one,
\* and no write fails, the collection ends with exactly one document of that hash,
\* holding the second Record's values.
C3_LastRecordWins ==
  (/\ s_pc = "returned"
   /\ s_upsert
   /\ s_pos = Len(stream)
   /\ FailedWrites = {})
  => \A j \in 1..Len(stream) :
       (/\ \A k \in (j + 1)..Len(stream) : stream[k].hash # stream[j].hash
        /\ \E i \in 1..(j - 1) : /\ stream[i].hash = stream[j].hash
                                 /\ stream[i].val # stream[j].val)
       => /\ Cardinality(Matching(collection, stream[j].hash)) = 1
          /\ \A d \in Matching(collection, stream[j].hash) :
               collection[d].val = stream[j].val

(***************************************************************************)
(* Properties of the calls the pagination iterators make.                  *)
(***************************************************************************)
FirstPages(k) == [i \in 1..k |-> i]

\* C20: scrape_pages_generator and scrape_pages_batched call scrape_page for
\* the pages 1, 2, 3, ... in increasing order and never twice for a page,
\* also after a page that returned nothing; at most one call is in flight,
\* the one for the current page; an iteration that runs to exhaustion has
\* called every page 1..num_pages, one that ended on a raising call has
\* called the pages up to that one.
C20_EachPageOnceInOrder ==
  /\ g_calls = FirstPages(Len(g_calls)) /\ Len(g_calls) <= num_pages
  /\ b_calls = FirstPages(Len(b_calls)) /\ Len(b_calls) <= num_pages
  /\ g_inflight \in 0..1 /\ b_inflight \in 0..1
  /\ g_inflight = 1 => g_pc = "fetching" /\ g_calls[Len(g_calls)] = g_page
  /\ b_inflight = 1 => b_pc = "fetching" /\ b_calls[Len(b_calls)] = b_page
  /\ g_pc = "done" => g_calls = FirstPages(num_pages)
  /\ b_pc = "done" => b_calls = FirstPages(num_pages)
  /\ g_pc = "raised" => g_calls = FirstPages(failPage)
  /\ b_pc = "raised" => b_calls = FirstPages(failPage)

\* both iterators ran to exhaustion over at least three pages, one of them empty
C20_Witness ==
  /\ g_pc = "done" /\ b_pc = "done"
  /\ num_pages >= 3 /\ batch_size = 2
  /\ pageLen[2] = 0 /\ pageLen[1] > 0 /\ pageLen[3] > 0
  /\ Len(g_calls) = num_pages /\ Len(b_calls) = num_pages

(***************************************************************************)
(* Properties of the delays of the stock loops.                            *)
(***************************************************************************)
IsFetch(event) == event[1] = "fetch"

IsSleep(event) == event[1] = "sleep"

\* C11: in every stock loop (generator, batched, standard method) a fetch
\* that is followed by anything is followed by one delay, a delay follows
\* nothing but a fetch, and no delay follows the fetch of the final symbol.
C11_DelayBetweenFetchesOnly ==
  /\ \A j \in 1..(Len(k_log) - 1) : IsFetch(k_log[j]) => IsSleep(k_log[j + 1])
  /\ \A j \in 1..Len(k_log) :
        IsSleep(k_log[j]) => /\ j > 1 /\ IsFetch(k_log[j - 1])
                             /\ k_log[j][2] < Len(symbols)

(***************************************************************************)
(* Properties of the pending-operations buffer of the streaming sinks.     *)
(***************************************************************************)
StreamingSink == s_kind \in {"upload_streaming", "dual_output"}

OpsOfWrites == Concat([i \in 1..Len(s_writes) |-> s_writes[i].ops])

\* C12: in upload_streaming and in dual_output_processor, with batch_size >= 1,
\* the buffer never holds more than batch_size operations and holds fewer
\* whenever the loop goes on; every bulk write but the last carries exactly
\* batch_size operations and the last, if smaller, is the one made at the end
\* of the stream; the writes and the buffer together hold the consumed
\* Records in stream order, each once; and when no write failed and the sink
\* has ended, the writes hold the whole stream.
C12_BufferFlushedAtBatchSize ==
  StreamingSink =>
    /\ Len(operations) <= mongo_batch_size
    /\ s_pc = "loop" => Len(operations) < mongo_batch_size
    /\ \A i \in 1..Len(s_writes) :
          /\ s_writes[i].ops # <<>>
          /\ Len(s_writes[i].ops) <= mongo_batch_size
          /\ Len(s_writes[i].ops) < mongo_batch_size =>
                i = Len(s_writes) /\ s_pos = Len(stream) /\ s_pc # "loop"
    /\ s_pc = "loop" =>
          OpsOfWrites \o operations = SubSeq(stream, 1, s_pos)
    /\ SinkEnded /\ FailedWrites = {} => OpsOfWrites = stream

\* a stream of three Records went through upload_streaming with batch size 2:
\* one full write and one write of the remainder, none failing
C12_Witness ==
  /\ s_kind = "upload_streaming" /\ s_pc = "returned"
  /\ mongo_batch_size = 2 /\ Len(stream) = 3
  /\ Len(s_writes) = 2 /\ FailedWrites = {}
  /\ Len(s_writes[1].ops) = 2 /\ Len(s_writes[2].ops) = 1

(***************************************************************************)
(* Properties of the collection.                                           *)
(***************************************************************************)
\* C13: once a sink has ended, in upsert mode or in insert-only mode and
\* whether or not create_indexes built the unique index, no two documents of
\* the collection carry the same hash.
C13_NoTwoDocumentsShareHash == SinkEnded => ~HasDuplicateHash(collection)

(***************************************************************************)
(* Properties of scrape_page.                                              *)
(***************************************************************************)
PageReturned == p_pc = "returned" /\ p_result # <<>>

\* C14: every article in the list MoneyControlCrawl4AIScraper.scrape_page
\* returns has a "hash" key, on every path through the function, and the
\* upsert operation the store sink builds for it is keyed by that hash.
C14_EveryReturnedArticleHasHash ==
  p_kind = "crawl4ai" /\ PageReturned =>
    \A i \in 1..Len(p_result[1]) :
       /\ "hash" \in DOMAIN p_result[1][i]
       /\ DOMAIN FilterKey(p_result[1][i]) = {"hash"}

\* what scrape_page returns for a page that was fetched and held no article
ZeroResults == ExtractedArticles(0)

\* C15: when the fetch of the page failed (a network error after the retries,
\* an unsuccessful crawl result or an exception), what scrape_page hands to
\* its caller differs from what it returns for a fetched page with zero
\* Records.
C15_FailureDistinctFromZeroResults ==
  PageReturned /\ p_failed => p_result[1] # ZeroResults

(***************************************************************************)
(* Properties of the sinks under write failures.                           *)
(***************************************************************************)
\* C16: a failing write of any kind never leaves a store sink as an
\* exception: the sink returns, and its failed count reflects the failure.
C16_WriteFailureNeverPropagates ==
  /\ s_pc # "raised"
  /\ s_pc = "returned" /\ FailedWrites # {} => stats.failed > 0

(***************************************************************************)
(* Properties of the streaming file sinks.                                 *)
(***************************************************************************)
\* the Records of the first k items of the stream, in arrival order
RecordsOfItems(k) == Concat([i \in 1..k |-> ItemRecords(i)])

\* the JSON texts of these Records
JsonOfRecords(k) ==
  LET recs == RecordsOfItems(k) IN [j \in 1..Len(recs) |-> JsonOfDict(recs[j], pretty)]

\* the texts, with one comma between every two consecutive ones
Joined(texts) ==
  Concat([j \in 1..Len(texts) |->
            IF j = 1 THEN <<texts[j]>> ELSE <<Comma(pretty), texts[j]>>])

\* '[' , the Records of the whole stream comma-separated, ']'
WellFormedFile ==
  <<OpenBracket(pretty)>> \o Joined(JsonOfRecords(Len(f_stream)))
                          \o <<CloseBracket(pretty)>>

IsPrefix(a, b) == Len(a) <= Len(b) /\ a = SubSeq(b, 1, Len(a))

OnlyDictItems == \A i \in 1..Len(f_stream) : f_stream[i].dict

\* C18 as stated: whenever one of the three streaming saves completes, for
\* every input sequence (lists, single dicts, empty lists, the empty stream),
\* the file is '[' , the Records in arrival order with one comma between
\* every two consecutive Records, ']'.
C18_WellFormedForEveryInput == f_pc = "done" => f_file = WellFormedFile

\* C18, amended: the same for the two BaseScraper saves on every input
\* sequence, and for ScreenerScraper.save_to_json_streaming on streams of
\* single dict items (and the empty stream).
C18_WellFormedWhenItemsHandled ==
  f_pc = "done" /\ (f_kind \in {"sync", "async"} \/ OnlyDictItems)
    => f_file = WellFormedFile

\* a BaseScraper save has completed on an empty list, a dict and a list of two
C18_Witness ==
  /\ f_kind = "async" /\ f_pc = "done"
  /\ Len(f_stream) = 3
  /\ ~f_stream[1].dict /\ f_stream[1].len = 0
  /\ f_stream[2].dict
  /\ ~f_stream[3].dict /\ f_stream[3].len = 2
  /\ Len(f_file) = 7

BaseSave == f_kind \in {"sync", "async"}

SaveRaised == f_pc = "raised" /\ f_error \in {"iterator", "write"}

\* C17 as stated: when the iterator or a write raised in a BaseScraper save,
\* the file holds '[' and a comma-separated prefix of the Records, and nothing
\* else.
C17_FileHoldsBracketAndRecordPrefix ==
  BaseSave /\ SaveRaised =>
    \E k \in 0..Len(JsonOfRecords(Len(f_stream))) :
       f_file = <<OpenBracket(pretty)>>
                  \o Joined(SubSeq(JsonOfRecords(Len(f_stream)), 1, k))

\* C17, amended: a BaseScraper save whose iterator raises never completes;
\* when the iterator or a write raised, the closing ']' is not in the file
\* and the file is a proper prefix of the well-formed file: after a raising
\* iterator it is '[' and the Records of the items received before,
\* comma-separated; after a raising write it may also be empty or end in a
\* comma.
C17_FileIsProperPrefix ==
  BaseSave =>
    /\ f_pc = "done" => f_raiseAt = 0
    /\ SaveRaised =>
          /\ \A j \in 1..Len(f_file) : f_file[j] # CloseBracket(pretty)
          /\ IsPrefix(f_file, WellFormedFile) /\ f_file # WellFormedFile
          /\ f_error = "iterator" =>
                f_file = <<OpenBracket(pretty)>> \o Joined(JsonOfRecords(f_pos))

\* the iterator raised after a list of two Records had been written
C17_Witness ==
  /\ f_kind = "sync" /\ f_pc = "raised" /\ f_error = "iterator"
  /\ f_raiseAt = 2 /\ Len(f_stream) >= 2
  /\ ~f_stream[1].dict /\ f_stream[1].len = 2
  /\ Len(f_file) = 4

(***************************************************************************)
(* Properties of the detail tasks of scrape_page.                          *)
(***************************************************************************)
\* the tasks inside fetch_article_details
InFlightDetails == {i \in 1..MaxArticles : p_task[i] = "fetching"}

\* the tasks inside `async with semaphore:`
HoldingSemaphore == {i \in 1..MaxArticles : p_task[i] \in {"fetching", "sleeping"}}

\* C19: while scrape_page gathers its detail tasks, for any number of
\* extracted articles and any interleaving of the tasks, the number of
\* fetch_article_details calls in flight never exceeds max_concurrent (the
\* tasks inside the semaphore and its counter add up to max_concurrent).
C19_InFlightAtMostMaxConcurrent ==
  p_pc = "gather" =>
    /\ Cardinality(InFlightDetails) <= max_concurrent
    /\ Cardinality(HoldingSemaphore) + sem_value = max_concurrent
    /\ sem_value >= 0

\* three articles and max_concurrent = 2: two detail fetches are in flight
\* and the third task waits for the semaphore
C19_Witness ==
  /\ p_pc = "gather" /\ max_concurrent = 2
  /\ Len(p_articles) = 3
  /\ Cardinality(InFlightDetails) = 2
  /\ \E i \in 1..3 : p_task[i] = "created"

(***************************************************************************)
(* Properties of the buffers of the batched iterators.                     *)
(***************************************************************************)
\* the pages whose Records the buffer of scrape_pages_batched holds
BufferPages == {batch_articles[i][1] : i \in 1..Len(batch_articles)}

\* C21: with batch_size >= 1 the buffer of scrape_pages_batched holds the
\* Records of at most batch_size pages at every point, and its page counter
\* is at most batch_size; when the iterator resumes after a yield the buffer
\* is empty and the counter is zero; with batch_size >= 1 the buffer of
\* scrape_stocks_batched never holds more than batch_size stock Records and
\* is empty when that iterator resumes after a yield.
C21_BufferHoldsAtMostBatchSize ==
  /\ [](batch_size >= 1 =>
          /\ Cardinality(BufferPages) <= batch_size
          /\ pages_in_current_batch <= batch_size)
  /\ [](k_batch_size >= 1 => Len(batch_data) <= k_batch_size)
  /\ [][b_pc = "yield" /\ b_pc' # "yield" =>
          batch_articles' = <<>> /\ pages_in_current_batch' = 0]_vars
  /\ [][k_method = "batched" /\ k_pc = "yield" /\ k_pc' # "yield" =>
          batch_data' = <<>>]_vars

\* the batched page iterator is suspended at its second yield with a full
\* buffer of two pages: it was reset after the first yield and filled again
C21_Witness ==
  /\ b_pc = "yield" /\ batch_size = 2 /\ Len(b_out) = 2
  /\ pages_in_current_batch = 2 /\ Cardinality(BufferPages) = 2
  /\ b_out[2] = batch_articles

(***************************************************************************)
(* Properties of a cancelled sink.                                         *)
(***************************************************************************)
SinkCancelled == s_pc \in {"cancelled", "cancel_caught"}

\* C22: when a streaming sink is cancelled, no further Record is fetched and
\* the operations it had accumulated have been submitted to the store when
\* it ends: the bulk writes made hold every Record consumed.
C22_CancelSubmitsAccumulatedOperations ==
  SinkCancelled => OpsOfWrites = SubSeq(stream, 1, s_pos)

(***************************************************************************)
(* Termination of the pagination iterators.                                *)
(***************************************************************************)
\* the number of passes of `for page in range(1, num_pages + 1)`
Passes == IF num_pages > 0 THEN num_pages ELSE 0

\* C23: when no call of scrape_page raises, scrape_pages_generator and
\* scrape_pages_batched eventually reach exhaustion; an exhausted iterator
\* has made exactly num_pages calls of scrape_page (none for num_pages <= 0),
\* none of them in flight; with num_pages <= 0 the iterators never fetch,
\* wait or yield.
C23_EventuallyExhausted ==
  /\ [](failPage = 0 => <>(g_pc = "done" /\ b_pc = "done"))
  /\ [](g_pc = "done" => Len(g_calls) = Passes /\ g_inflight = 0)
  /\ [](b_pc = "done" => Len(b_calls) = Passes /\ b_inflight = 0)
  /\ [](num_pages <= 0 =>
          /\ g_calls = <<>> /\ g_delays = 0 /\ g_out = <<>>
          /\ b_calls = <<>> /\ b_delays = 0 /\ b_out = <<>>
          /\ batch_articles = <<>>)

\* both iterators are exhausted after MaxPages fetches each, the last page
\* being empty and no call having raised
C23_Witness ==
  /\ failPage = 0 /\ num_pages = MaxPages
  /\ g_pc = "done" /\ b_pc = "done"
  /\ Len(g_calls) = MaxPages /\ Len(b_calls) = MaxPages
  /\ pageLen[MaxPages] = 0 /\ pageLen[1] > 0

(***************************************************************************)
(* Properties of _extract_table_raw.  The table has the header row         *)
(* h0, h1 .. hm when it has a header row at all.                           *)
(***************************************************************************)
TableReturned == t_pc = "returned"

NumDateColumns == Len(t_headers) - 1

\* the text of header h_i
HeaderOf(i) == StrStrip(t_headers[i + 1])

NonEmptyHeaders == {HeaderOf(i) : i \in 1..NumDateColumns} \ {<<>>}

LabelOf(r) == StrStrip(t_rows[r][1])

LabelledRows == {r \in 1..Len(t_rows) : LabelOf(r) # <<>>}

NumValueCells(r) == Len(t_rows[r]) - 1

\* the text of the i-th value cell of row r
CellTextOf(r, i) == <<Digits[r], Digits[i]>>

\* the (row, column) pairs whose value cell is stored under header h and key k
Writers(h, k) ==
  {p \in LabelledRows \X (1..NumDateColumns) :
     /\ p[2] <= NumValueCells(p[1])
     /\ HeaderOf(p[2]) = h
     /\ MetricKey(LabelOf(p[1])) = k}

\* the last of them in the order of the table: rows first, then columns
LastWriter(h, k) ==
  CHOOSE p \in Writers(h, k) :
    \A q \in Writers(h, k) : q[1] < p[1] \/ (q[1] = p[1] /\ q[2] <= p[2])

KeysUnder(h) ==
  {MetricKey(LabelOf(p[1])) :
     p \in {q \in LabelledRows \X (1..NumDateColumns) :
              q[2] <= NumValueCells(q[1]) /\ HeaderOf(q[2]) = h}}

KeyExamples ==
  /\ MetricKey(<<"A", "+">>) = <<"a">>
  /\ MetricKey(<<"A", " ", "%">>) = <<"a", "_", "percent">>

\* C24 as stated: the result has one key per non-empty header among h1..hm,
\* and for every row with a non-empty label and every column with a non-empty
\* header in which the row has a value cell, the result holds that cell's
\* text under the column's header and the label's key.
C24_EveryCellUnderItsHeaderAndKey ==
  TableReturned /\ t_headers # <<>> =>
    /\ DOMAIN t_result = NonEmptyHeaders
    /\ \A r \in LabelledRows : \A i \in 1..NumDateColumns :
         HeaderOf(i) # <<>> /\ i <= NumValueCells(r) =>
           /\ MetricKey(LabelOf(r)) \in DOMAIN t_result[HeaderOf(i)]
           /\ t_result[HeaderOf(i)][MetricKey(LabelOf(r))] = CellTextOf(r, i)
    /\ KeyExamples

\* C24, amended: the result has one key per distinct non-empty header among
\* h1..hm; under a header it holds exactly the keys of the labelled rows that
\* have a value cell in a column of that header, each with the text of the
\* last such cell (last row of that key, last column of that header); so a
\* cell is found under its own header and key when no later row has the same
\* key and no later column the same header.  'A+' gives the key 'a' and
\* 'A %' the key 'a_percent'.
C24_LastCellUnderHeaderAndKey ==
  TableReturned /\ t_headers # <<>> =>
    /\ DOMAIN t_result = NonEmptyHeaders
    /\ \A h \in NonEmptyHeaders :
         /\ DOMAIN t_result[h] = KeysUnder(h)
         /\ \A k \in KeysUnder(h) :
              t_result[h][k] = CellTextOf(LastWriter(h, k)[1], LastWriter(h, k)[2])
    /\ KeyExamples

\* two rows whose different labels have the same key, under two different
\* headers: the second row's cells are the ones returned
C24_Witness ==
  /\ TableReturned /\ NumDateColumns = 2 /\ Len(t_rows) = 2
  /\ HeaderOf(1) # <<>> /\ HeaderOf(2) # <<>> /\ HeaderOf(1) # HeaderOf(2)
  /\ NumValueCells(1) = 2 /\ NumValueCells(2) = 2
  /\ LabelOf(1) # <<>> /\ LabelOf(1) # LabelOf(2)
  /\ MetricKey(LabelOf(1)) = MetricKey(LabelOf(2))
  /\ t_result[HeaderOf(1)][MetricKey(LabelOf(1))] = CellTextOf(2, 1)
  /\ t_result[HeaderOf(2)][MetricKey(LabelOf(1))] = CellTextOf(2, 2)

(***************************************************************************)
(* Properties of fetch_page.                                               *)
(***************************************************************************)
Gets == {i \in 1..Len(r_log) : r_log[i].kind = "get"}

Sleeps == {i \in 1..Len(r_log) : r_log[i].kind = "sleep"}

FetchPageReturned == r_pc = "returned"

\* C25: fetch_page makes at most `retries` calls of session.get, numbered
\* 0, 1, 2, ...; no call follows a successful one, and the parsed page of the
\* successful call is what is returned; a wait follows a failed attempt only
\* and lies between that attempt and the next, lasting 2^attempt seconds;
\* nothing is waited after the last attempt; None is returned exactly when
\* `retries` attempts (none for retries <= 0) have been made and all failed.
C25_RetriesWithBackoff ==
  r_kind = "fetch_page" =>
  /\ Cardinality(Gets) <= (IF r_retries > 0 THEN r_retries ELSE 0)
  /\ \A i \in 1..Len(r_log) :
       IF i % 2 = 1
         THEN /\ r_log[i].kind = "get" /\ r_log[i].n = (i - 1) \div 2
              /\ r_log[i].ok => i = Len(r_log)
         ELSE /\ r_log[i].kind = "sleep" /\ ~r_log[i - 1].ok
              /\ r_log[i].n = 2 ^ r_log[i - 1].n
  /\ FetchPageReturned =>
       /\ r_log # <<>> => r_log[Len(r_log)].kind = "get"
       /\ r_result = <<Soup(r_page_number)>> <=>
            (r_log # <<>> /\ r_log[Len(r_log)].ok)
       /\ r_result = <<NoneValue>> <=>
            /\ Cardinality(Gets) = (IF r_retries > 0 THEN r_retries ELSE 0)
            /\ \A i \in Gets : ~r_log[i].ok

\* three attempts failed: waits of 1 and 2 seconds were made and None returned
C25_Witness ==
  /\ r_kind = "fetch_page"
  /\ FetchPageReturned /\ r_retries = 3 /\ r_result = <<NoneValue>>
  /\ Cardinality(Gets) = 3
  /\ [i \in 1..Len(r_log) |-> r_log[i].n] = <<0, 1, 1, 2, 2>>

(***************************************************************************)
(* Properties of fetch_article_details.                                    *)
(***************************************************************************)
DetailKeys == {"date", "author", "full_content"}

\* C26: fetch_article_details returns, for every value of retries, a dict
\* with exactly the keys date, author and full_content, after at most
\* `retries` calls of crawler.arun; the three values are empty when every
\* attempt failed.
C26_AlwaysReturnsDetailsDict ==
  r_kind = "fetch_article_details" /\ r_pc = "returned" =>
    /\ r_result[1].type = "dict"
    /\ DOMAIN r_result[1].items = DetailKeys
    /\ Cardinality(Gets) <= (IF r_retries > 0 THEN r_retries ELSE 0)
    /\ (\A i \in Gets : ~r_log[i].ok) => r_result[1] = EmptyDetails

(***************************************************************************)
(* Properties of the last-page search.                                     *)
(***************************************************************************)
\* C27: when the pages 1..L have articles and no page above L has
\* (0 <= L <= max_pages), _binary_search_last_page terminates, returns L
\* when L >= 1 and 1 when no page has articles, and calls crawler.arun at
\* most once for a page number, each in 1..max_pages.
C27_BinarySearchFindsLastPage ==
  /\ <>(bs_pc = "returned")
  /\ [](bs_pc = "returned" =>
          last_valid = (IF lastWithArticles >= 1 THEN lastWithArticles ELSE 1))
  /\ [](\A i, j \in 1..Len(probes) : i # j => probes[i] # probes[j])
  /\ [](\A i \in 1..Len(probes) : probes[i] \in 1..max_pages)

\* the search over MaxSearchPages pages returned a last page in the upper
\* half after probes on both sides of it
C27_Witness ==
  /\ bs_pc = "returned" /\ max_pages = MaxSearchPages
  /\ lastWithArticles = 5 /\ last_valid = 5
  /\ \E i, j \in 1..Len(probes) : probes[i] < 5 /\ probes[j] > 5

(***************************************************************************)
(* Properties of the details scrape_page gives its articles.               *)
(***************************************************************************)
\* scrape_page has returned the articles it updated from the gathered details
DetailsGathered ==
  /\ p_kind = "crawl4ai" /\ p_pc = "returned" /\ fetch_details
  /\ p_articles # <<>> /\ \A i \in 1..Len(p_articles) : p_task[i] = "done"

\* C28: in whatever order the detail tasks ended, article i of the returned
\* list is the i-th article of the listing page (its url and title) with the
\* date, author and full_content its own task returned, each either the one
\* of its own detail page or empty; and with the three of them empty when
\* its task ended with an exception, whatever the other tasks ended with.
C28_EachArticleGetsItsOwnDetail ==
  DetailsGathered =>
    /\ Len(p_result[1]) = Len(p_articles)
    /\ \A i \in 1..Len(p_articles) :
         LET article == p_result[1][i] IN
         /\ article.url = i /\ article.title = ArticleTitle(i)
         /\ article.date \in {DetailDate(i), <<>>}
         /\ article.author \in {DetailAuthor(i), <<>>}
         /\ article.full_content \in {DetailContent(i), <<>>}
         /\ p_details[i].kind = "dict" =>
              /\ article.date = p_details[i].date
              /\ article.author = p_details[i].author
              /\ article.full_content = p_details[i].full_content
         /\ p_details[i].kind = "exception" =>
              /\ article.date = <<>> /\ article.author = <<>>
              /\ article.full_content = <<>>

\* three articles were returned: the task of the second ended with an
\* exception, the first and the third have the details of their own pages
C28_Witness ==
  /\ DetailsGathered /\ Len(p_articles) = 3
  /\ p_details[2].kind = "exception" /\ p_result[1][2].date = <<>>
  /\ p_result[1][1].date = DetailDate(1) /\ p_result[1][1].author = DetailAuthor(1)
  /\ p_result[1][3].date = DetailDate(3)
  /\ p_result[1][3].full_content = DetailContent(3)

(***************************************************************************)
(* Properties of the browser's life.                                       *)
(***************************************************************************)
CallEvents == {"scrape_page", "scrape_multiple_pages"}

\* the position in the log of the call that event i belongs to
CallOf(i) ==
  CHOOSE c \in 1..i :
    /\ w_log[c].event \in CallEvents
    /\ \A j \in (c + 1)..i : w_log[j].event \notin CallEvents

StartsOfCall(c) ==
  {i \in c..Len(w_log) : w_log[i].event = "start" /\ CallOf(i) = c}

\* C29: the browser is started at most once in a run of
\* scrape_multiple_pages; when such a run has ended, by return or by
\* exception, no browser is left running; and no page is ever loaded on a
\* browser that was quit, whatever calls were made on the object before.
C29_BrowserStartedOnceClosedAlwaysNeverUsedClosed ==
  /\ \A c \in 1..Len(w_log) :
       w_log[c].event = "scrape_multiple_pages" => Cardinality(StartsOfCall(c)) <= 1
  /\ (w_pc = "idle" /\ w_log # <<>>
        /\ w_log[CallOf(Len(w_log))].event = "scrape_multiple_pages")
       => driver # "open"
  /\ \A i \in 1..Len(w_log) : ~(w_log[i].event = "load" /\ w_log[i].on = "closed")

(***************************************************************************)
(* Properties of the statistics of upload_articles.                        *)
(***************************************************************************)
UploadArticlesReturned == s_kind = "upload_articles" /\ s_pc = "returned"

\* the articles whose hash a document carried when the upload began (the
\* documents of this upload carry its uploaded_at)
AlreadyStored ==
  {i \in 1..Len(stream) :
     \E d \in 1..Len(collection) :
        /\ "uploaded_at" \notin DOMAIN collection[d]
        /\ collection[d].hash = stream[i].hash}

\* C30: the statistics upload_articles returns count every input article
\* once: in insert-only mode inserted + skipped + failed is the number of
\* articles and the articles whose hash was already in the collection are
\* among the skipped or failed ones, none among the inserted; in upsert mode
\* inserted + updated + failed is the number of articles.
C30_StatisticsAccountForEveryArticle ==
  UploadArticlesReturned =>
    IF s_upsert
      THEN stats.inserted + stats.updated + stats.failed = Len(stream)
      ELSE /\ stats.inserted + stats.skipped + stats.failed = Len(stream)
           /\ stats.inserted <= Len(stream) - Cardinality(AlreadyStored)

====
